---- MODULE Spec2Model ----
(***************************************************************************)
(* Model of the ingestion and aggregation engine of git-analysis:          *)
(*   - the bootstrap classifier        (models.py)                         *)
(*   - the commit stream parser        (analysis_repo.py)                  *)
(*   - the path classifier             (analysis_paths.py)                 *)
(*   - the identity matcher            (identity.py)                       *)
(*   - the repo resolver/deduplicator  (analysis_selection.py, git.py)     *)
(*   - the aggregator                  (analysis_aggregate.py)             *)
(*   - the orchestrator                (analysis_run.py)                   *)
(* Strings the code splits or slices are modelled already tokenised: a     *)
(* line is the list of its tab-separated parts, a path the list of its     *)
(* segments, an ISO timestamp the record of its numeric fields.            *)
(***************************************************************************)
EXTENDS Integers, Sequences, FiniteSets, TLC

VARIABLES
    st,         \* locals of one parse_numstat_stream invocation
    ref,        \* the same parser run on the stream without excluded commits
    phase,      \* position of parse_numstat_stream
    nread,      \* lines read from stdout so far
    seen_shas,  \* shas the history query has already printed
    nheaders,   \* header lines read with a non-empty, non-excluded sha
    code,       \* exit code of the history subprocess
    cfg,        \* the caller's arguments of parse_numstat_stream
    ref_skip,   \* the line being read belongs to an excluded commit
    clean       \* what the same stdout yields when the subprocess exits with 0

VARIABLES
    bt_in,      \* the arguments of one BootstrapConfig.is_bootstrap call
    bt_out      \* what the call returned

VARIABLES
    ag_repos,   \* the list of RepoResult handed to the aggregators
    ag_out      \* the last aggregation: excluding, bootstraps only, including

VARIABLES
    sel_cfg,          \* the arguments of discover_and_select_repos
    walked,           \* the candidates the loop has taken so far
    sel,              \* by_key and selection_rows
    repos_to_analyze, \* the sorted list returned
    sel_phase         \* position of discover_and_select_repos

VARIABLES
    proc,         \* the history subprocess: what it is writing, what is left
    stdout_pipe,  \* the lines written to stdout and not yet read
    stderr_pipe,  \* the number of characters in the stderr pipe
    parent_pc,    \* position of parse_numstat_stream between Popen and return
    drain         \* the drain_stderr thread and its nonlocals

VARIABLES
    run_args,   \* repos_to_analyze and --jobs of one run_analysis call
    futs,       \* the state of each submitted future
    results,    \* the list run_analysis collects
    run_pc      \* position of run_analysis

VARIABLES
    call_args,  \* the function called on its own and its arguments
    call_out    \* what the call returned

VARIABLES
    objects,    \* the objects of the interpreter, by identity
    ob_repos,   \* the identities of the RepoResult objects
    ob_vals,    \* the values the RepoResults had when they were returned
    ob_out      \* the last aggregation call and the object it returned

parseVars == <<st, ref, phase, nread, seen_shas, nheaders, code, cfg, ref_skip, clean>>

bootVars == <<bt_in, bt_out>>

aggVars == <<ag_repos, ag_out>>

selVars == <<sel_cfg, walked, sel, repos_to_analyze, sel_phase>>

procVars == <<proc, stdout_pipe, stderr_pipe, parent_pc, drain>>

runVars == <<run_args, futs, results, run_pc>>

callVars == <<call_args, call_out>>

objVars == <<objects, ob_repos, ob_vals, ob_out>>

vars == <<parseVars, bootVars, aggVars, selVars, procVars, runVars, callVars, objVars>>

----------------------------------------------------------------------------
(* Bounds *)

MaxLines == 4

MaxCandidates == 4

MaxChurn == 16

MaxFiles == 10

MaxRepos == 2

MaxWrites == 4

StdoutCapacity == 2

StderrCapacity == 16384

----------------------------------------------------------------------------
(* Generic helpers *)

\* F(v) with v evaluated once: a local variable of the code.
Bind(v, F(_)) == CHOOSE r \in {F(x) : x \in {v}} : TRUE

Max2(a, b) == IF a >= b THEN a ELSE b

Get(m, k, default) == IF k \in DOMAIN m THEN m[k] ELSE default

RECURSIVE SumOver(_, _, _)
SumOver(m, keys, field) ==
    IF keys = {} THEN 0
    ELSE LET k == CHOOSE x \in keys : TRUE
         IN  m[k][field] + SumOver(m, keys \ {k}, field)

SumField(m, field) == SumOver(m, DOMAIN m, field)

----------------------------------------------------------------------------
(* models.py *)

RepoYearStats ==
    [commits_total |-> 0, insertions_total |-> 0, deletions_total |-> 0,
     commits_me |-> 0, insertions_me |-> 0, deletions_me |-> 0]

AuthorStats(name, email) ==
    [name |-> name, email |-> email, commits |-> 0, insertions |-> 0, deletions |-> 0]

\* BootstrapConfig; addition_ratio is the rational ratio_num / ratio_den.
BootstrapConfig(ct, ft, num, den) ==
    [changed_threshold |-> ct, files_threshold |-> ft, ratio_num |-> num, ratio_den |-> den]

\* The three-clause predicate of explain_spikes.py (BootstrapCfg.is_bootstrap).
spike_is_bootstrap(b, insertions, deletions, files_touched) ==
    LET changed  == insertions + deletions
        dominant == Max2(insertions, deletions)
        lopsided == dominant * b.ratio_den >= b.ratio_num * changed
    IN  IF changed < b.changed_threshold THEN FALSE
        ELSE IF changed <= 0 THEN FALSE
        ELSE IF files_touched >= b.files_threshold /\ lopsided THEN TRUE
        ELSE IF lopsided /\ changed >= b.changed_threshold * 8 THEN TRUE
        ELSE IF files_touched >= b.files_threshold * 5
                /\ changed >= b.changed_threshold * 4 THEN TRUE
        ELSE FALSE

\* BootstrapConfig.is_bootstrap: insertions / changed >= addition_ratio.
is_bootstrap(b, insertions, deletions, files_touched) ==
    LET changed == insertions + deletions
    IN  IF changed < b.changed_threshold THEN FALSE
        ELSE IF files_touched < b.files_threshold THEN FALSE
        ELSE IF changed <= 0 THEN FALSE
        ELSE insertions * b.ratio_den >= b.ratio_num * changed

----------------------------------------------------------------------------
(* identity.py *)

\* str.strip().lower() on the e-mail addresses of the model.
normalize_email(email) ==
    CASE email = " Me@X.com" -> "me@x.com"
      [] email = "12+Octo@Users.NoReply.GitHub.com" -> "12+octo@users.noreply.github.com"
      [] OTHER -> email

\* str.strip().casefold() on the author names of the model.
normalize_name(name) ==
    CASE name = "Me" -> "me"
      [] name = "ME" -> "me"
      [] name = "Bob" -> "bob"
      [] OTHER -> name

\* e.split("@", 1) on the normalized addresses of the model: the text
\* before the first '@' and the text after it.
SplitAt(e) ==
    CASE e = "12+octo@users.noreply.github.com" -> <<"12+octo", "users.noreply.github.com">>
      [] e = "octo@users.noreply.github.com" -> <<"octo", "users.noreply.github.com">>
      [] e = "12+hubot@users.noreply.github.com" -> <<"12+hubot", "users.noreply.github.com">>
      [] e = "12+octo@users.noreply.ghe.example.com" -> <<"12+octo", "users.noreply.ghe.example.com">>
      [] e = "octo@users.noreply.ghe.example.com" -> <<"octo", "users.noreply.ghe.example.com">>
      [] e = "octo@github.com" -> <<"octo", "github.com">>
      [] e = "me@x.com" -> <<"me", "x.com">>
      [] e = "bob@y.org" -> <<"bob", "y.org">>
      [] OTHER -> <<e, "">>

\* local.rsplit("+", 1)[-1] on the local parts of the model.
AfterLastPlus(local) ==
    CASE local = "12+octo" -> "octo"
      [] local = "12+hubot" -> "hubot"
      [] OTHER -> local

\* The mutant of github_username_from_email that keeps the numeric id.
github_username_from_email_with_id(email) ==
    LET e == normalize_email(email)
    IN  IF e = "" THEN ""
        ELSE IF SplitAt(e)[2] # "users.noreply.github.com" THEN ""
        ELSE SplitAt(e)[1]

\* github_username_from_email: only <local>@users.noreply.github.com yields
\* a username, the part of <local> after its last '+' (the local parts of
\* the model are lower-case and have no '@' in front, so
\* normalize_github_username leaves them as they are).
github_username_from_email(email) ==
    LET e == normalize_email(email)
    IN  IF e = "" THEN ""
        ELSE IF SplitAt(e)[2] # "users.noreply.github.com" THEN ""
        ELSE AfterLastPlus(SplitAt(e)[1])

\* fnmatch.fnmatch on the patterns of the model.
fnmatch(s, pat) ==
    CASE pat = "*@x.com" -> s \in {"me@x.com"}
      [] pat = "*" -> TRUE
      [] OTHER -> s = pat

MeMatcher_matches(me, author_name, author_email) ==
    LET email == normalize_email(author_email)
        name  == normalize_name(author_name)
        gh    == IF email # "" THEN github_username_from_email(email) ELSE ""
    IN  \/ (email # "" /\ email \in me.emails)
        \/ (name # "" /\ name \in me.names)
        \/ (gh # "" /\ gh \in me.github_usernames)
        \/ (name # "" /\ name \in me.github_usernames)
        \/ (email # "" /\ \E pat \in me.email_globs : fnmatch(email, pat))
        \/ (name # "" /\ \E pat \in me.name_globs : fnmatch(name, pat))

----------------------------------------------------------------------------
(* analysis_paths.py; a path is the sequence of its '/'-separated segments *)

\* A numstat path field: `rename` says it contains " => "; then `right` is
\* what follows the last " => " once the braces are removed.
RawPath(rename, left, right) == [rename |-> rename, left |-> left, right |-> right]

normalize_numstat_path(raw) == IF raw.rename THEN raw.right ELSE raw.left

\* Path(base).suffix.lower() of the file names of the model.
Suffix(base) ==
    CASE base = "a.py" -> ".py"
      [] base = "b.go" -> ".go"
      [] base = "c.js" -> ".js"
      [] base = "d.PY" -> ".py"
      [] base = "logo.bin" -> ".bin"
      [] OTHER -> ""

by_ext(ext) ==
    CASE ext = ".py" -> "Python"
      [] ext = ".go" -> "Go"
      [] ext = ".js" -> "JavaScript"
      [] ext = ".md" -> "Markdown"
      [] OTHER -> "Other"

language_for_path(path) ==
    LET base == path[Len(path)]
    IN  IF base = "Dockerfile" THEN "Dockerfile"
        ELSE IF base \in {"Makefile", "makefile"} THEN "Makefile"
        ELSE by_ext(Suffix(base))

\* The key is the sequence of the first max(1, depth) segments.
dir_key_for_path(path, depth) ==
    IF Len(path) <= 1 THEN <<"(root)">>
    ELSE SubSeq(path, 1, IF Max2(1, depth) < Len(path) THEN Max2(1, depth) ELSE Len(path))

\* p.startswith(pr) or "/" + pr in p, pr being the prefix with a trailing
\* '/': the segments of pr occur, in order, among the directories of p.
HasDirRun(path, pr) ==
    \E i \in 1..Len(path) :
        /\ i + Len(pr) - 1 < Len(path)
        /\ \A j \in 1..Len(pr) : path[i + j - 1] = pr[j]

\* fnmatch.fnmatch of a whole path against the path globs of the model.
path_fnmatch(path, pat) ==
    CASE pat = "*.bin" -> Suffix(path[Len(path)]) = ".bin"
      [] OTHER -> FALSE

\* The mutant of should_exclude_path that excludes nothing.
should_exclude_path_never(path, exclude_prefixes, exclude_globs) == FALSE

should_exclude_path(path, exclude_prefixes, exclude_globs) ==
    \/ \E pr \in exclude_prefixes : pr # <<>> /\ HasDirRun(path, pr)
    \/ \E pat \in exclude_globs : pat # "" /\ path_fnmatch(path, pat)

----------------------------------------------------------------------------
(* Author timestamps (%aI): the numeric fields of an ISO-8601 string;      *)
(* `empty` is the empty string, `tz` says an offset is present, `off` is   *)
(* the offset in minutes east of UTC.                                      *)

Iso(y, mo, d, h, mi, off) ==
    [empty |-> FALSE, y |-> y, mo |-> mo, d |-> d, h |-> h, mi |-> mi, tz |-> TRUE, off |-> off]

EmptyIso ==
    [empty |-> TRUE, y |-> 0, mo |-> 0, d |-> 0, h |-> 0, mi |-> 0, tz |-> FALSE, off |-> 0]

IsLeap(y) == (y % 4 = 0 /\ y % 100 # 0) \/ y % 400 = 0

DaysInMonth(y, mo) ==
    IF mo = 2 THEN (IF IsLeap(y) THEN 29 ELSE 28)
    ELSE IF mo \in {4, 6, 9, 11} THEN 30 ELSE 31

\* datetime.fromisoformat raises ValueError on out-of-range fields.
IsoParses(iso) ==
    /\ ~iso.empty
    /\ iso.y \in 1..9999
    /\ iso.mo \in 1..12
    /\ iso.d \in 1..DaysInMonth(iso.y, iso.mo)
    /\ iso.h \in 0..23
    /\ iso.mi \in 0..59
    /\ iso.off \in -1439..1439

\* Days since 1970-01-01 of a proleptic Gregorian date (date.toordinal).
DaysFromCivil(y, mo, d) ==
    LET yy  == IF mo <= 2 THEN y - 1 ELSE y
        era == yy \div 400
        yoe == yy - era * 400
        mp  == IF mo > 2 THEN mo - 3 ELSE mo + 9
        doy == (153 * mp + 2) \div 5 + d - 1
        doe == yoe * 365 + yoe \div 4 - yoe \div 100 + doy
    IN  era * 146097 + doe - 719468

\* The date of a day number (date.fromordinal), as <<y, mo, d>>.
CivilFromDays(z0) ==
    LET z   == z0 + 719468
        era == z \div 146097
        doe == z - era * 146097
        yoe == (doe - doe \div 1460 + doe \div 36524 - doe \div 146096) \div 365
        doy == doe - (365 * yoe + yoe \div 4 - yoe \div 100)
        mp  == (5 * doy + 2) \div 153
        d   == doy - (153 * mp + 2) \div 5 + 1
        mo  == IF mp < 10 THEN mp + 3 ELSE mp - 9
        y   == yoe + era * 400
    IN  <<IF mo <= 2 THEN y + 1 ELSE y, mo, d>>

\* The mutant of week_start_iso that takes the Monday of the date as written.
week_start_iso_local(commit_iso) ==
    IF commit_iso.empty THEN <<>>
    ELSE IF ~IsoParses(commit_iso) THEN <<>>
    ELSE LET date_local == DaysFromCivil(commit_iso.y, commit_iso.mo, commit_iso.d)
         IN  CivilFromDays(date_local - ((date_local + 3) % 7))

\* The mutant of week_start_iso that finds no week.
week_start_iso_none(commit_iso) == <<>>

\* _week_start_iso: the Monday of the UTC date, <<>> for "".
week_start_iso(commit_iso) ==
    IF commit_iso.empty THEN <<>>
    ELSE IF ~IsoParses(commit_iso) THEN <<>>
    ELSE LET off      == IF commit_iso.tz THEN commit_iso.off ELSE 0
             minutes  == DaysFromCivil(commit_iso.y, commit_iso.mo, commit_iso.d) * 1440
                         + commit_iso.h * 60 + commit_iso.mi - off
             date_utc == minutes \div 1440
             weekday  == (date_utc + 3) % 7
         IN  CivilFromDays(date_utc - weekday)

\* The mutant of month_key_of that gives a month to parsed timestamps only.
month_key_of_parsed(commit_iso) ==
    IF IsoParses(commit_iso) THEN <<commit_iso.y, commit_iso.mo>> ELSE <<>>

\* current_commit_iso[:7] when the string has a '-' at index 4: the year
\* and month as written, whatever the offset; <<>> for "".
month_key_of(commit_iso) ==
    IF commit_iso.empty THEN <<>> ELSE <<commit_iso.y, commit_iso.mo>>

----------------------------------------------------------------------------
(* analysis_repo.py: the state of one parse_numstat_stream invocation *)

EmptyMap == [x \in {} |-> 0]

ZeroCID == [commits |-> 0, insertions |-> 0, deletions |-> 0]

ZeroBreakdown == [insertions |-> 0, deletions |-> 0, insertions_me |-> 0, deletions_me |-> 0]

ZeroExcluded ==
    [excluded_files |-> 0, excluded_insertions |-> 0,
     excluded_deletions |-> 0, excluded_changed |-> 0]

\* The shas written with three digits, and the number each one writes.
DigitShas == [sha \in {ToString(i) : i \in 100..999} |->
                 CHOOSE i \in 100..999 : ToString(i) = sha]

\* Python's string order on the shas of the model: "" first, then the
\* shas of three digits in the order of their numbers, then the letters.
ShaRank(sha) ==
    CASE sha = "" -> 0
      [] sha \in DOMAIN DigitShas -> DigitShas[sha] - 99
      [] sha = "a" -> 1001
      [] sha = "b" -> 1002
      [] sha = "k" -> 1003
      [] sha = "x" -> 1004
      [] OTHER -> 1005

\* The per-commit accumulator (lines 135-149, reset at 162-176, 303-317).
ClearedCurrent ==
    [current_sha |-> "", current_author_name |-> "", current_author_email |-> "",
     current_author_is_me |-> FALSE, current_commit_iso |-> EmptyIso,
     current_subject |-> "", current_insertions |-> 0, current_deletions |-> 0,
     current_files_touched |-> 0, current_langs |-> EmptyMap, current_dirs |-> EmptyMap,
     current_excluded_files |-> 0, current_excluded_insertions |-> 0,
     current_excluded_deletions |-> 0, current_excluded_changed |-> 0]

\* The rollups and lists of the invocation (lines 88-133).
InitialRollups ==
    [stats_excl |-> RepoYearStats, stats_boot |-> RepoYearStats,
     weekly_excl |-> EmptyMap, weekly_boot |-> EmptyMap,
     weekly_tech_excl |-> EmptyMap, weekly_tech_boot |-> EmptyMap,
     me_weekly_excl |-> EmptyMap, me_weekly_boot |-> EmptyMap,
     me_weekly_tech_excl |-> EmptyMap, me_weekly_tech_boot |-> EmptyMap,
     authors_excl |-> EmptyMap, authors_boot |-> EmptyMap,
     languages_excl |-> EmptyMap, languages_boot |-> EmptyMap,
     dirs_excl |-> EmptyMap, dirs_boot |-> EmptyMap,
     me_monthly_excl |-> EmptyMap, me_monthly_boot |-> EmptyMap,
     me_monthly_tech_excl |-> EmptyMap, me_monthly_tech_boot |-> EmptyMap,
     excluded |-> ZeroExcluded,
     bootstrap_commits |-> <<>>, top_commits_heap |-> <<>>,
     top_commits |-> <<>>, errors |-> <<>>]

RollupFields == DOMAIN InitialRollups

CurrentFields == DOMAIN ClearedCurrent

\* Record union: the fields of b, and those of a that b lacks.
Merge(a, b) == b @@ a

InitialState == Merge(InitialRollups, ClearedCurrent)

ResetCurrent(s) == Merge(s, ClearedCurrent)

\* The values parse_numstat_stream returns, but for the error list.
Rollups(s) == [f \in RollupFields \ {"errors", "top_commits_heap"} |-> s[f]]

----------------------------------------------------------------------------
(* Dictionary updates *)

AddCID(a, c, ins, dele) ==
    [commits |-> a.commits + c, insertions |-> a.insertions + ins,
     deletions |-> a.deletions + dele]

\* m[k]["commits"] += c; m[k]["insertions"] += ins; ... on a defaultdict.
BumpCID(m, k, c, ins, dele) ==
    [x \in DOMAIN m \cup {k} |->
        IF x = k THEN AddCID(Get(m, k, ZeroCID), c, ins, dele) ELSE m[x]]

\* for tech, (ins, dele) in langs.items(): m[k][tech] += ..., for the techs
\* in `techs`; m[k] comes into being only when the loop body runs.
BumpTech(m, k, langs, techs) ==
    IF techs = {} THEN m
    ELSE LET inner == Get(m, k, EmptyMap)
             upd   == [t \in DOMAIN inner \cup techs |->
                         IF t \in techs
                         THEN AddCID(Get(inner, t, ZeroCID), 1, langs[t].ins, langs[t].dele)
                         ELSE inner[t]]
         IN  [x \in DOMAIN m \cup {k} |-> IF x = k THEN upd ELSE m[x]]

\* for key, (ins, dele) in cur.items(): target[key] += ... (lines 235-247).
AddBreakdown(target, cur, is_me) ==
    [k \in DOMAIN target \cup DOMAIN cur |->
        IF k \in DOMAIN cur
        THEN LET t == Get(target, k, ZeroBreakdown)
             IN  [insertions |-> t.insertions + cur[k].ins,
                  deletions |-> t.deletions + cur[k].dele,
                  insertions_me |-> t.insertions_me + (IF is_me THEN cur[k].ins ELSE 0),
                  deletions_me |-> t.deletions_me + (IF is_me THEN cur[k].dele ELSE 0)]
        ELSE target[k]]

\* current_langs[lang] = (ins0 + added, del0 + deleted) (lines 418-423).
AddPair(m, k, added, deleted) ==
    LET old == Get(m, k, [ins |-> 0, dele |-> 0])
    IN  [x \in DOMAIN m \cup {k} |->
            IF x = k THEN [ins |-> old.ins + added, dele |-> old.dele + deleted] ELSE m[x]]

----------------------------------------------------------------------------
(* heapq on top_commits_heap; entries compare as (changed, sha, ...) *)

TopCommitsCap == 50

EntryLess(a, b) ==
    \/ a.changed < b.changed
    \/ (a.changed = b.changed /\ ShaRank(a.sha) < ShaRank(b.sha))

\* heapq._siftdown(heap, 0, pos) with newitem to be placed.
RECURSIVE SiftDown(_, _, _)
SiftDown(heap, pos, newitem) ==
    IF pos > 1 /\ EntryLess(newitem, heap[pos \div 2])
    THEN SiftDown([heap EXCEPT ![pos] = heap[pos \div 2]], pos \div 2, newitem)
    ELSE [heap EXCEPT ![pos] = newitem]

heappush(heap, item) == SiftDown(Append(heap, item), Len(heap) + 1, item)

\* heapq._siftup: move the smaller child up until a leaf, then sift down.
RECURSIVE SiftUp(_, _, _)
SiftUp(heap, pos, newitem) ==
    LET left  == 2 * pos
        right == 2 * pos + 1
        child == IF right <= Len(heap) /\ ~EntryLess(heap[left], heap[right])
                 THEN right ELSE left
    IN  IF left <= Len(heap)
        THEN SiftUp([heap EXCEPT ![pos] = heap[child]], child, newitem)
        ELSE SiftDown(heap, pos, newitem)

\* The mutant of heapreplace that drops the new entry.
heapreplace_never(heap, item) == heap

heapreplace(heap, item) == SiftUp(heap, 1, item)

\* top_commits.sort(key=(-changed, sha)): a stable insertion sort.
SortKeyLess(a, b) ==
    \/ a.changed > b.changed
    \/ (a.changed = b.changed /\ ShaRank(a.sha) < ShaRank(b.sha))

RECURSIVE InsertSorted(_, _)
InsertSorted(sorted, item) ==
    IF sorted = <<>> THEN <<item>>
    ELSE IF SortKeyLess(item, sorted[Len(sorted)])
         THEN Append(InsertSorted(SubSeq(sorted, 1, Len(sorted) - 1), item), sorted[Len(sorted)])
         ELSE Append(sorted, item)

RECURSIVE SortTopCommits(_)
SortTopCommits(heap) ==
    IF heap = <<>> THEN <<>>
    ELSE InsertSorted(SortTopCommits(SubSeq(heap, 1, Len(heap) - 1)), heap[Len(heap)])

----------------------------------------------------------------------------
(* apply_commit (analysis_repo.py lines 151-317) *)

commit_row(s, is_boot) ==
    [sha |-> s.current_sha, commit_iso |-> s.current_commit_iso,
     author_name |-> s.current_author_name, author_email |-> s.current_author_email,
     is_me |-> s.current_author_is_me, is_bootstrap |-> is_boot,
     subject |-> s.current_subject, files_touched |-> s.current_files_touched,
     insertions |-> s.current_insertions, deletions |-> s.current_deletions,
     changed |-> s.current_insertions + s.current_deletions]

\* stats_target.commits_total += 1 ... (lines 195-197, 220-223).
AddStats(t, s) ==
    [commits_total |-> t.commits_total + 1,
     insertions_total |-> t.insertions_total + s.current_insertions,
     deletions_total |-> t.deletions_total + s.current_deletions,
     commits_me |-> t.commits_me + (IF s.current_author_is_me THEN 1 ELSE 0),
     insertions_me |-> t.insertions_me + (IF s.current_author_is_me THEN s.current_insertions ELSE 0),
     deletions_me |-> t.deletions_me + (IF s.current_author_is_me THEN s.current_deletions ELSE 0)]

\* authors_target[email_key] (lines 225-233).
AddAuthor(t, s) ==
    LET email_key == IF s.current_author_email # ""
                     THEN normalize_email(s.current_author_email) ELSE ""
        author == Get(t, email_key, AuthorStats(s.current_author_name, s.current_author_email))
    IN  IF email_key = "" THEN t
        ELSE [k \in DOMAIN t \cup {email_key} |->
                IF k = email_key
                THEN [author EXCEPT !.commits = @ + 1,
                                    !.insertions = @ + s.current_insertions,
                                    !.deletions = @ + s.current_deletions]
                ELSE t[k]]

\* excluded["excluded_files"] += current_excluded_files ... (lines 179-182).
AddExcluded(e, s) ==
    [excluded_files |-> e.excluded_files + s.current_excluded_files,
     excluded_insertions |-> e.excluded_insertions + s.current_excluded_insertions,
     excluded_deletions |-> e.excluded_deletions + s.current_excluded_deletions,
     excluded_changed |-> e.excluded_changed + s.current_excluded_changed]

\* The rollups of one bootstrap view after the current commit is added.
ApplyToView(s, view) ==
    LET langs == s.current_langs
        me    == s.current_author_is_me
        nonzero == {t \in DOMAIN s.current_langs :
                       s.current_langs[t].ins + s.current_langs[t].dele > 0}
        Bucketed(wk, month) ==
        [stats   |-> AddStats(view.stats, s),
         weekly  |-> IF wk # <<>>
                     THEN BumpCID(view.weekly, wk, 1, s.current_insertions, s.current_deletions)
                     ELSE view.weekly,
         weekly_tech |-> IF wk # <<>> THEN BumpTech(view.weekly_tech, wk, langs, nonzero)
                         ELSE view.weekly_tech,
         me_weekly |-> IF wk # <<>> /\ me
                       THEN BumpCID(view.me_weekly, wk, 1, s.current_insertions, s.current_deletions)
                       ELSE view.me_weekly,
         me_weekly_tech |-> IF wk # <<>> /\ me
                            THEN BumpTech(view.me_weekly_tech, wk, langs, nonzero)
                            ELSE view.me_weekly_tech,
         authors   |-> AddAuthor(view.authors, s),
         languages |-> AddBreakdown(view.languages, langs, me),
         dirs      |-> AddBreakdown(view.dirs, s.current_dirs, me),
         me_monthly |-> IF me /\ month # <<>>
                        THEN BumpCID(view.me_monthly, month, 1, s.current_insertions, s.current_deletions)
                        ELSE view.me_monthly,
         me_monthly_tech |-> IF me /\ month # <<>>
                             THEN BumpTech(view.me_monthly_tech, month, langs, DOMAIN langs)
                             ELSE view.me_monthly_tech]
    IN  Bind(week_start_iso(s.current_commit_iso),
             LAMBDA wk : Bucketed(wk, month_key_of(s.current_commit_iso)))

ExclView(s) ==
    [stats |-> s.stats_excl, weekly |-> s.weekly_excl, weekly_tech |-> s.weekly_tech_excl,
     me_weekly |-> s.me_weekly_excl, me_weekly_tech |-> s.me_weekly_tech_excl,
     authors |-> s.authors_excl, languages |-> s.languages_excl, dirs |-> s.dirs_excl,
     me_monthly |-> s.me_monthly_excl, me_monthly_tech |-> s.me_monthly_tech_excl]

BootView(s) ==
    [stats |-> s.stats_boot, weekly |-> s.weekly_boot, weekly_tech |-> s.weekly_tech_boot,
     me_weekly |-> s.me_weekly_boot, me_weekly_tech |-> s.me_weekly_tech_boot,
     authors |-> s.authors_boot, languages |-> s.languages_boot, dirs |-> s.dirs_boot,
     me_monthly |-> s.me_monthly_boot, me_monthly_tech |-> s.me_monthly_tech_boot]

\* Lines 160-177: a commit in exclude_commits is dropped.
IsExcludedCommit(s, c) == s.current_sha \in c.exclude_commits

\* Lines 157-158: nothing is applied, and nothing reset, without a sha.
HasNoCommit(s) == s.current_sha = ""

\* The mutant of in_bootstrap_exclude_shas that ignores the set.
in_bootstrap_exclude_shas_ignored(s, c) == FALSE

\* Lines 184-185: current_sha in (bootstrap_exclude_shas or set()).
in_bootstrap_exclude_shas(s, c) == s.current_sha \in c.bootstrap_exclude_shas

apply_commit(s, c) ==
    IF HasNoCommit(s) THEN s
    ELSE IF IsExcludedCommit(s, c) THEN ResetCurrent(s)
    ELSE
      LET Pushed(heap, entry) ==
              IF Len(heap) < TopCommitsCap THEN heappush(heap, entry)
              ELSE IF EntryLess(heap[1], entry) THEN heapreplace(heap, entry)
              ELSE heap
          Routed(is_boot, v, entry) ==
              IF is_boot
              THEN [stats_boot |-> v.stats, weekly_boot |-> v.weekly,
                    weekly_tech_boot |-> v.weekly_tech, me_weekly_boot |-> v.me_weekly,
                    me_weekly_tech_boot |-> v.me_weekly_tech, authors_boot |-> v.authors,
                    languages_boot |-> v.languages, dirs_boot |-> v.dirs,
                    me_monthly_boot |-> v.me_monthly,
                    me_monthly_tech_boot |-> v.me_monthly_tech,
                    bootstrap_commits |->
                        Append(s.bootstrap_commits,
                               [f \in DOMAIN entry \ {"is_bootstrap"} |-> entry[f]]),
                    excluded |-> AddExcluded(s.excluded, s),
                    top_commits_heap |-> Pushed(s.top_commits_heap, entry)]
              ELSE [stats_excl |-> v.stats, weekly_excl |-> v.weekly,
                    weekly_tech_excl |-> v.weekly_tech, me_weekly_excl |-> v.me_weekly,
                    me_weekly_tech_excl |-> v.me_weekly_tech, authors_excl |-> v.authors,
                    languages_excl |-> v.languages, dirs_excl |-> v.dirs,
                    me_monthly_excl |-> v.me_monthly,
                    me_monthly_tech_excl |-> v.me_monthly_tech,
                    excluded |-> AddExcluded(s.excluded, s),
                    top_commits_heap |-> Pushed(s.top_commits_heap, entry)]
          Applied(is_boot) ==
              Bind(ApplyToView(s, IF is_boot THEN BootView(s) ELSE ExclView(s)),
                   LAMBDA v : Routed(is_boot, v, commit_row(s, is_boot)))
      IN  ResetCurrent(Merge(s,
              Bind(/\ is_bootstrap(c.bootstrap, s.current_insertions,
                                   s.current_deletions, s.current_files_touched)
                   /\ ~in_bootstrap_exclude_shas(s, c),
                   Applied)))

----------------------------------------------------------------------------
(* The loop body of parse_numstat_stream (lines 379-427) *)

\* parts[i] if len(parts) > i else ""
Part(parts, i, default) == IF Len(parts) >= i THEN parts[i] ELSE default

\* A line starting with "@@@": parts is line[3:].split("\t", 4).
on_header(s, c, parts) ==
    LET name == Part(parts, 2, "")
        mail == Part(parts, 3, "")
    IN  [apply_commit(s, c) EXCEPT
            !.current_sha = Part(parts, 1, ""),
            !.current_author_name = name,
            !.current_author_email = mail,
            !.current_commit_iso = Part(parts, 4, EmptyIso),
            !.current_subject = Part(parts, 5, ""),
            !.current_author_is_me = MeMatcher_matches(c.me, name, mail)]

\* int(added_s): the count fields are numbers, "-" or unparsable text.
IsCount(x) == x \in Nat

IsBinaryMark(x) == x = -1

\* Any other non-blank line: parts is line.split("\t", 2).
on_numstat(s, c, parts) ==
    IF Len(parts) < 2 THEN s
    ELSE
      LET added_s   == parts[1]
          deleted_s == parts[2]
          file_path == IF Len(parts) >= 3 THEN normalize_numstat_path(parts[3]) ELSE <<>>
          binary    == IsBinaryMark(added_s) \/ IsBinaryMark(deleted_s)
          added     == IF binary THEN 0 ELSE added_s
          deleted   == IF binary THEN 0 ELSE deleted_s
      IN  IF ~binary /\ ~(IsCount(added_s) /\ IsCount(deleted_s)) THEN s
          ELSE IF file_path # <<>>
                  /\ should_exclude_path(file_path, c.exclude_path_prefixes, c.exclude_path_globs)
          THEN [s EXCEPT !.current_excluded_files = @ + 1,
                         !.current_excluded_insertions = @ + added,
                         !.current_excluded_deletions = @ + deleted,
                         !.current_excluded_changed = @ + added + deleted]
          ELSE
            LET t == IF file_path # <<>>
                     THEN [s EXCEPT !.current_langs =
                                        AddPair(@, language_for_path(file_path), added, deleted),
                                    !.current_dirs =
                                        AddPair(@, dir_key_for_path(file_path, 1), added, deleted)]
                     ELSE s
            IN  [t EXCEPT !.current_insertions = @ + added,
                          !.current_deletions = @ + deleted,
                          !.current_files_touched = @ + 1]

\* The mutant of on_end_of_stream that forgets the commit in progress.
on_end_of_stream_no_flush(s, c, exit_code) ==
    [s EXCEPT !.errors = IF exit_code # 0 THEN Append(@, "git log exited") ELSE @,
              !.top_commits = SortTopCommits(s.top_commits_heap)]

\* The mutant of on_end_of_stream that gives up on a non-zero exit code.
on_end_of_stream_abort_on_error(s, c, exit_code) ==
    IF exit_code # 0
    THEN [s EXCEPT !.errors = Append(@, "git log exited"),
                   !.top_commits = SortTopCommits(s.top_commits_heap)]
    ELSE [apply_commit(s, c) EXCEPT
             !.top_commits = SortTopCommits(apply_commit(s, c).top_commits_heap)]

\* Lines 429-439: wait, record a non-zero exit, apply the last commit, sort.
on_end_of_stream(s, c, exit_code) ==
    LET Sorted(a) == [a EXCEPT !.top_commits = SortTopCommits(a.top_commits_heap)]
    IN  Bind(apply_commit(IF exit_code # 0
                              THEN [s EXCEPT !.errors = Append(@, "git log exited")]
                              ELSE s, c),
             Sorted)

\* Lines 327-353: Popen raised; the empty rollups are returned with an error
\* (and an empty top-commits list).
on_start_failure(s) == [s EXCEPT !.errors = <<"failed to start git log">>]

----------------------------------------------------------------------------
(* analysis_repo.py: analyze_repo collects one parse per period *)

\* The history query's stdout as a list of lines; kind "header", "numstat"
\* or "blank".
RECURSIVE parse_lines(_, _, _)
parse_lines(s, c, lines) ==
    IF lines = <<>> THEN s
    ELSE LET line == Head(lines)
             t == CASE line.kind = "header" -> on_header(s, c, line.parts)
                    [] line.kind = "numstat" -> on_numstat(s, c, line.parts)
                    [] OTHER -> s
         IN  parse_lines(t, c, Tail(lines))

\* parse_numstat_stream on a subprocess that started, printed `lines` and
\* exited with exit_code.
parse_numstat_stream(c, lines, exit_code) ==
    on_end_of_stream(parse_lines(InitialState, c, lines), c, exit_code)

\* RepoResult as analyze_repo builds it from the parse of each period
\* (lines 503-611); by_period maps each label of periods to a returned
\* parse, and the errors of the parses are joined in the order of periods.
RepoResult(path, duplicates, first_iso, first_name, first_email, periods, by_period) ==
    LET errs[i \in 0..Len(periods)] ==
            IF i = 0 THEN <<>> ELSE errs[i - 1] \o by_period[periods[i]].errors
    IN
    [path |-> path,
     duplicates |-> duplicates,
     first_commit_iso |-> first_iso,
     first_commit_author_name |-> first_name,
     first_commit_author_email |-> first_email,
     period_stats_excl_bootstraps |-> [l \in DOMAIN by_period |-> by_period[l].stats_excl],
     period_stats_bootstraps |-> [l \in DOMAIN by_period |-> by_period[l].stats_boot],
     weekly_by_period_excl_bootstraps |-> [l \in DOMAIN by_period |-> by_period[l].weekly_excl],
     weekly_by_period_bootstraps |-> [l \in DOMAIN by_period |-> by_period[l].weekly_boot],
     authors_by_period_excl_bootstraps |-> [l \in DOMAIN by_period |-> by_period[l].authors_excl],
     authors_by_period_bootstraps |-> [l \in DOMAIN by_period |-> by_period[l].authors_boot],
     languages_by_period_excl_bootstraps |-> [l \in DOMAIN by_period |-> by_period[l].languages_excl],
     languages_by_period_bootstraps |-> [l \in DOMAIN by_period |-> by_period[l].languages_boot],
     dirs_by_period_excl_bootstraps |-> [l \in DOMAIN by_period |-> by_period[l].dirs_excl],
     dirs_by_period_bootstraps |-> [l \in DOMAIN by_period |-> by_period[l].dirs_boot],
     me_monthly_by_period_excl_bootstraps |-> [l \in DOMAIN by_period |-> by_period[l].me_monthly_excl],
     me_monthly_by_period_bootstraps |-> [l \in DOMAIN by_period |-> by_period[l].me_monthly_boot],
     me_monthly_tech_by_period_excl_bootstraps |->
         [l \in DOMAIN by_period |-> by_period[l].me_monthly_tech_excl],
     me_monthly_tech_by_period_bootstraps |->
         [l \in DOMAIN by_period |-> by_period[l].me_monthly_tech_boot],
     excluded_by_period |-> [l \in DOMAIN by_period |-> by_period[l].excluded],
     bootstrap_commits_by_period |-> [l \in DOMAIN by_period |-> by_period[l].bootstrap_commits],
     top_commits_by_period |-> [l \in DOMAIN by_period |-> by_period[l].top_commits],
     errors |-> errs[Len(periods)]]

----------------------------------------------------------------------------
(* analysis_aggregate.py *)

\* The mutant of add_repo_year_stats that leaves the line totals alone.
add_repo_year_stats_no_line_totals(dst, src) ==
    [commits_total |-> dst.commits_total + src.commits_total,
     insertions_total |-> dst.insertions_total,
     deletions_total |-> dst.deletions_total,
     commits_me |-> dst.commits_me + src.commits_me,
     insertions_me |-> dst.insertions_me + src.insertions_me,
     deletions_me |-> dst.deletions_me + src.deletions_me]

add_repo_year_stats(dst, src) ==
    [commits_total |-> dst.commits_total + src.commits_total,
     insertions_total |-> dst.insertions_total + src.insertions_total,
     deletions_total |-> dst.deletions_total + src.deletions_total,
     commits_me |-> dst.commits_me + src.commits_me,
     insertions_me |-> dst.insertions_me + src.insertions_me,
     deletions_me |-> dst.deletions_me + src.deletions_me]

\* The mutant of repo_period_stats that never adds the bootstrap view.
repo_period_stats_excl_only(r, period_label, include_bootstraps) ==
    add_repo_year_stats(RepoYearStats,
        Get(r.period_stats_excl_bootstraps, period_label, RepoYearStats))

repo_period_stats(r, period_label, include_bootstraps) ==
    LET out == add_repo_year_stats(RepoYearStats,
                   Get(r.period_stats_excl_bootstraps, period_label, RepoYearStats))
    IN  IF include_bootstraps
        THEN add_repo_year_stats(out, Get(r.period_stats_bootstraps, period_label, RepoYearStats))
        ELSE out

\* for k, v in st.items(): cur[k] = int(cur.get(k, 0)) + int(v)
AddItems(cur, item) ==
    [k \in DOMAIN cur \cup DOMAIN item |->
        IF k \in DOMAIN item THEN Get(cur, k, 0) + item[k] ELSE cur[k]]

merge_breakdown(dst, src) ==
    [key \in DOMAIN dst \cup DOMAIN src |->
        IF key \notin DOMAIN src THEN dst[key]
        ELSE IF key \notin DOMAIN dst THEN src[key]
        ELSE AddItems(dst[key], src[key])]

merge_me_monthly(dst, src) ==
    [month \in DOMAIN dst \cup DOMAIN src |->
        IF month \notin DOMAIN src THEN dst[month]
        ELSE IF month \notin DOMAIN dst THEN src[month]
        ELSE AddItems(dst[month], src[month])]

merge_weekly(dst, src) ==
    [week_start \in DOMAIN dst \cup DOMAIN src |->
        IF week_start \notin DOMAIN src THEN dst[week_start]
        ELSE IF week_start \notin DOMAIN dst THEN src[week_start]
        ELSE AddItems(dst[week_start], src[week_start])]

merge_me_monthly_tech(dst, src) ==
    [month \in DOMAIN dst \cup DOMAIN src |->
        IF month \notin DOMAIN src THEN dst[month]
        ELSE IF month \notin DOMAIN dst THEN src[month]
        ELSE merge_breakdown(dst[month], src[month])]

\* The mutant of merge_author_stats that keeps the entry it already has.
merge_author_stats_first_wins(dst, src) ==
    [email_key \in DOMAIN dst \cup DOMAIN src |->
        IF email_key \in DOMAIN dst THEN dst[email_key] ELSE src[email_key]]

merge_author_stats(dst, src) ==
    [email_key \in DOMAIN dst \cup DOMAIN src |->
        IF email_key \notin DOMAIN src THEN dst[email_key]
        ELSE IF email_key \notin DOMAIN dst THEN src[email_key]
        ELSE LET cur == dst[email_key]
                 a   == src[email_key]
             IN  [name |-> IF cur.name = "" /\ a.name # "" THEN a.name ELSE cur.name,
                  email |-> IF cur.email = "" /\ a.email # "" THEN a.email ELSE cur.email,
                  commits |-> cur.commits + a.commits,
                  insertions |-> cur.insertions + a.insertions,
                  deletions |-> cur.deletions + a.deletions]]

\* The merge loops of the aggregate_* functions: `kind` names the map.
MergeOf(kind, dst, src) ==
    CASE kind = "weekly" -> merge_weekly(dst, src)
      [] kind = "me_monthly" -> merge_me_monthly(dst, src)
      [] kind = "me_monthly_tech" -> merge_me_monthly_tech(dst, src)
      [] kind = "authors" -> merge_author_stats(dst, src)
      [] OTHER -> merge_breakdown(dst, src)

ExclField(kind, r) ==
    CASE kind = "weekly" -> r.weekly_by_period_excl_bootstraps
      [] kind = "me_monthly" -> r.me_monthly_by_period_excl_bootstraps
      [] kind = "me_monthly_tech" -> r.me_monthly_tech_by_period_excl_bootstraps
      [] kind = "authors" -> r.authors_by_period_excl_bootstraps
      [] kind = "languages" -> r.languages_by_period_excl_bootstraps
      [] OTHER -> r.dirs_by_period_excl_bootstraps

BootField(kind, r) ==
    CASE kind = "weekly" -> r.weekly_by_period_bootstraps
      [] kind = "me_monthly" -> r.me_monthly_by_period_bootstraps
      [] kind = "me_monthly_tech" -> r.me_monthly_tech_by_period_bootstraps
      [] kind = "authors" -> r.authors_by_period_bootstraps
      [] kind = "languages" -> r.languages_by_period_bootstraps
      [] OTHER -> r.dirs_by_period_bootstraps

\* for r in repos: if bootstraps_only: merge(agg, boot) else: merge(agg,
\* excl); if include_bootstraps: merge(agg, boot)
RECURSIVE MergeLoop(_, _, _, _, _)
MergeLoop(kind, repos, period_label, include_bootstraps, bootstraps_only) ==
    IF repos = <<>> THEN EmptyMap
    ELSE LET r    == repos[Len(repos)]
             agg  == MergeLoop(kind, SubSeq(repos, 1, Len(repos) - 1), period_label,
                               include_bootstraps, bootstraps_only)
             excl == Get(ExclField(kind, r), period_label, EmptyMap)
             boot == Get(BootField(kind, r), period_label, EmptyMap)
         IN  IF bootstraps_only THEN MergeOf(kind, agg, boot)
             ELSE IF include_bootstraps THEN MergeOf(kind, MergeOf(kind, agg, excl), boot)
             ELSE MergeOf(kind, agg, excl)

WithChanged(v) ==
    [commits |-> Get(v, "commits", 0), insertions |-> Get(v, "insertions", 0),
     deletions |-> Get(v, "deletions", 0),
     changed |-> Get(v, "insertions", 0) + Get(v, "deletions", 0)]

aggregate_weekly(repos, period_label, include_bootstraps, bootstraps_only) ==
    LET agg == MergeLoop("weekly", repos, period_label, include_bootstraps, bootstraps_only)
    IN  [week_start \in DOMAIN agg |-> WithChanged(agg[week_start])]

aggregate_me_monthly(repos, period_label, include_bootstraps, bootstraps_only) ==
    LET agg == MergeLoop("me_monthly", repos, period_label, include_bootstraps, bootstraps_only)
    IN  [month \in DOMAIN agg |-> WithChanged(agg[month])]

aggregate_me_monthly_tech(repos, period_label, include_bootstraps, bootstraps_only) ==
    LET agg == MergeLoop("me_monthly_tech", repos, period_label, include_bootstraps,
                         bootstraps_only)
    IN  [month \in DOMAIN agg |-> [tech \in DOMAIN agg[month] |-> WithChanged(agg[month][tech])]]

aggregate_authors(repos, period_label, include_bootstraps, bootstraps_only) ==
    MergeLoop("authors", repos, period_label, include_bootstraps, bootstraps_only)

WithOthers(v) ==
    [insertions |-> v.insertions, deletions |-> v.deletions,
     changed |-> v.insertions + v.deletions,
     insertions_me |-> v.insertions_me, deletions_me |-> v.deletions_me,
     changed_me |-> v.insertions_me + v.deletions_me,
     insertions_others |-> v.insertions - v.insertions_me,
     deletions_others |-> v.deletions - v.deletions_me,
     changed_others |-> (v.insertions + v.deletions) - (v.insertions_me + v.deletions_me)]

aggregate_languages(repos, period_label, include_bootstraps, bootstraps_only) ==
    LET agg == MergeLoop("languages", repos, period_label, include_bootstraps, bootstraps_only)
    IN  [lang \in DOMAIN agg |-> WithOthers(agg[lang])]

aggregate_dirs(repos, period_label, include_bootstraps, bootstraps_only) ==
    LET agg == MergeLoop("dirs", repos, period_label, include_bootstraps, bootstraps_only)
    IN  [d \in DOMAIN agg |-> WithOthers(agg[d])]

\* The loop of aggregate_period (lines 217-243): the running totals and the
\* repository counters.
RECURSIVE PeriodLoop(_, _, _, _, _)
PeriodLoop(repos, period, me, include_bootstraps, bootstraps_only) ==
    IF repos = <<>>
    THEN [total |-> RepoYearStats, repos_with_commits |-> 0, repos_with_my_commits |-> 0,
          new_projects_by_history |-> 0, new_projects_started_by_me |-> 0]
    ELSE LET r   == repos[Len(repos)]
             acc == PeriodLoop(SubSeq(repos, 1, Len(repos) - 1), period, me,
                               include_bootstraps, bootstraps_only)
             ys  == IF bootstraps_only
                    THEN Get(r.period_stats_bootstraps, period.label, RepoYearStats)
                    ELSE repo_period_stats(r, period.label, include_bootstraps)
             fi  == r.first_commit_iso
             first_ok == /\ ~fi.empty
                         /\ fi.y \in 1..9999 /\ fi.mo \in 1..12
                         /\ fi.d \in 1..DaysInMonth(fi.y, fi.mo)
             in_period == /\ first_ok
                          /\ period.start <= DaysFromCivil(fi.y, fi.mo, fi.d)
                          /\ DaysFromCivil(fi.y, fi.mo, fi.d) < period.end
             by_me == /\ in_period
                      /\ r.first_commit_author_name # ""
                      /\ r.first_commit_author_email # ""
                      /\ MeMatcher_matches(me, r.first_commit_author_name,
                                           r.first_commit_author_email)
         IN  [total |-> add_repo_year_stats(acc.total, ys),
              repos_with_commits |->
                  acc.repos_with_commits + (IF ys.commits_total > 0 THEN 1 ELSE 0),
              repos_with_my_commits |->
                  acc.repos_with_my_commits + (IF ys.commits_me > 0 THEN 1 ELSE 0),
              new_projects_by_history |->
                  acc.new_projects_by_history + (IF in_period THEN 1 ELSE 0),
              new_projects_started_by_me |->
                  acc.new_projects_started_by_me + (IF by_me THEN 1 ELSE 0)]

aggregate_period(repos, period, me, include_bootstraps, bootstraps_only) ==
    LET Summary(acc, total) ==
        [period |-> period.label,
         repos_total |-> Len(repos),
         repos_with_commits |-> acc.repos_with_commits,
         repos_with_my_commits |-> acc.repos_with_my_commits,
         new_projects_by_history |-> acc.new_projects_by_history,
         new_projects_started_by_me |-> acc.new_projects_started_by_me,
         commits_total |-> total.commits_total,
         commits_me |-> total.commits_me,
         commits_others |-> total.commits_total - total.commits_me,
         insertions_total |-> total.insertions_total,
         deletions_total |-> total.deletions_total,
         changed_total |-> total.insertions_total + total.deletions_total,
         insertions_me |-> total.insertions_me,
         deletions_me |-> total.deletions_me,
         changed_me |-> total.insertions_me + total.deletions_me,
         insertions_others |-> total.insertions_total - total.insertions_me,
         deletions_others |-> total.deletions_total - total.deletions_me,
         changed_others |-> (total.insertions_total + total.deletions_total)
                            - (total.insertions_me + total.deletions_me)]
        Of(acc) == Summary(acc, acc.total)
    IN  Of(PeriodLoop(repos, period, me, include_bootstraps, bootstraps_only))

RECURSIVE aggregate_excluded(_, _)
aggregate_excluded(repos, period_label) ==
    IF repos = <<>> THEN EmptyMap
    ELSE AddItems(aggregate_excluded(SubSeq(repos, 1, Len(repos) - 1), period_label),
                  Get(repos[Len(repos)].excluded_by_period, period_label, EmptyMap))

----------------------------------------------------------------------------
(* git.py: remotes.  A remote URL is the record of its pieces: form "url"  *)
(* (scheme://[user@]host/path), "scp" (user@host:path) or "plain"; the     *)
(* path is its list of segments, git_suffix says it ends with ".git" and   *)
(* slashes counts the '/' after that.  A canonical remote is the list of   *)
(* its '/'-separated pieces, <<>> for "".                                  *)

Url(form, host, segs, git_suffix, slashes) ==
    [form |-> form, host |-> host, segs |-> segs, git_suffix |-> git_suffix,
     slashes |-> slashes, blank |-> FALSE]

BlankUrl ==
    [form |-> "plain", host |-> "", segs |-> <<>>, git_suffix |-> FALSE,
     slashes |-> 0, blank |-> TRUE]

\* str.lower() on the hosts, path segments and remote names of the model.
Lower(x) ==
    CASE x = "GitHub.com" -> "github.com"
      [] x = "Org" -> "org"
      [] x = "Repo" -> "repo"
      [] x = "Upstream" -> "upstream"
      [] x = ".GIT" -> ".git"
      [] OTHER -> x

\* canonicalize_remote: host/path without scheme and user, trailing slashes
\* and one trailing ".git" stripped, lower-cased.
canonicalize_remote(remote) ==
    IF remote.blank THEN <<>>
    ELSE [i \in 1..(Len(remote.segs) + 1) |->
            IF i = 1 THEN Lower(remote.host) ELSE Lower(remote.segs[i - 1])]

\* canonicalize_remote on the text of the URL.  A text is the list of its
\* pieces: "://", ":", "@", "/", " ", ".git", ".GIT" and words of letters and
\* dots; "://" is one piece, never ":" followed by two "/".  urlparse finds
\* a scheme and a netloc when the first colon of the text is "://", what
\* stands before it is made of words and what follows is not a "/"; the
\* netloc runs to the next "/" and the path starts there.
canonicalize_remote_text(remote) ==
    LET has(s, t) == \E i \in DOMAIN s : s[i] = t
        first(s, t) == CHOOSE i \in DOMAIN s : s[i] = t /\ \A j \in 1..(i - 1) : s[j] # t
        before(s, t) == SubSeq(s, 1, first(s, t) - 1)
        after(s, t) == SubSeq(s, first(s, t) + 1, Len(s))
        lstrip(s, t) ==
            LET keep == {i \in DOMAIN s : s[i] # t}
            IN  IF keep = {} THEN <<>>
                ELSE SubSeq(s, CHOOSE i \in keep : \A j \in keep : i <= j, Len(s))
        rstrip(s, t) ==
            LET keep == {i \in DOMAIN s : s[i] # t}
            IN  IF keep = {} THEN <<>>
                ELSE SubSeq(s, 1, CHOOSE i \in keep : \A j \in keep : i >= j)
        is_word(t) == t \notin {"://", ":", "@", "/", " ", ".git", ".GIT"}
        r == rstrip(lstrip(remote, " "), " ")
        colons == {i \in DOMAIN r : r[i] \in {":", "://"}}
        k == CHOOSE i \in colons : \A j \in colons : i <= j
        has_netloc ==
            /\ colons # {}
            /\ r[k] = "://"
            /\ k >= 2
            /\ \A j \in 1..(k - 1) : is_word(r[j])
            /\ k < Len(r)
            /\ r[k + 1] # "/"
        rest == SubSeq(r, k + 1, Len(r))
        netloc == IF has(rest, "/") THEN before(rest, "/") ELSE rest
        path == IF has(rest, "/") THEN SubSeq(rest, first(rest, "/"), Len(rest)) ELSE <<>>
        canon ==
            IF ~has(r, "://") /\ has(r, ":") /\ has(before(r, ":"), "@")
            THEN after(before(r, ":"), "@") \o <<"/">> \o after(r, ":")
            ELSE IF has_netloc
                 THEN (IF has(netloc, "@") THEN after(netloc, "@") ELSE netloc)
                          \o <<"/">> \o lstrip(path, "/")
                 ELSE r
        stripped == rstrip(canon, "/")
        cut == IF stripped # <<>> /\ stripped[Len(stripped)] = ".git"
               THEN SubSeq(stripped, 1, Len(stripped) - 1)
               ELSE stripped
    IN  IF r = <<>> THEN <<>> ELSE [i \in DOMAIN cut |-> Lower(cut[i])]

\* canon == p or canon.startswith(p + "/")
IsPrefixOf(p, canon) ==
    /\ Len(p) <= Len(canon)
    /\ \A i \in 1..Len(p) : canon[i] = p[i]

remote_included(remote, include_prefixes) ==
    IF include_prefixes = {} THEN TRUE
    ELSE LET canon == canonicalize_remote(remote)
         IN  /\ canon # <<>>
             /\ \E prefix \in include_prefixes :
                    LET pc == canonicalize_remote(prefix)
                    IN  pc # <<>> /\ IsPrefixOf(pc, canon)

remotes_included(remotes, include_prefixes, mode) ==
    IF include_prefixes = {} THEN TRUE
    ELSE IF DOMAIN remotes = {} THEN FALSE
    ELSE IF mode = "primary" THEN TRUE
    ELSE \E name \in DOMAIN remotes : remote_included(remotes[name], include_prefixes)

\* Python's string order on the lower-cased remote names of the model.
NameRank(name) ==
    CASE name = "fork" -> 1
      [] name = "mirror" -> 2
      [] name = "origin" -> 3
      [] name = "upstream" -> 4
      [] OTHER -> 5

\* The index of name in the list, 10000 when it is not listed.
PrioIndex(priority, name) ==
    IF \E i \in 1..Len(priority) : priority[i] = name
    THEN (CHOOSE i \in 1..Len(priority) :
             priority[i] = name /\ \A j \in 1..(i - 1) : priority[j] # name) - 1
    ELSE 10000

\* select_remote: the first remote of the pool under (priority index, name);
\* the pool is the remotes on the allowlist, or all of them when none is.
select_remote(remotes, include_prefixes, priority) ==
    IF DOMAIN remotes = {} THEN [name |-> "", url |-> BlankUrl, canon |-> <<>>]
    ELSE LET matching == {n \in DOMAIN remotes :
                             IF include_prefixes # {}
                             THEN remote_included(remotes[n], include_prefixes) ELSE TRUE}
             pool == IF matching # {} THEN matching ELSE DOMAIN remotes
             Before(a, b) ==
                 \/ PrioIndex(priority, a) < PrioIndex(priority, b)
                 \/ /\ PrioIndex(priority, a) = PrioIndex(priority, b)
                    /\ NameRank(Lower(a)) < NameRank(Lower(b))
             first == CHOOSE n \in pool : \A m \in pool \ {n} : Before(n, m)
         IN  [name |-> first, url |-> remotes[first],
              canon |-> canonicalize_remote(remotes[first])]

\* detect_fork: <<is_fork, parent_canon>>.
detect_fork(remotes, fork_remote_names) ==
    LET listed == {i \in 1..Len(fork_remote_names) :
                      /\ fork_remote_names[i] \in DOMAIN remotes
                      /\ ~remotes[fork_remote_names[i]].blank}
    IN  IF DOMAIN remotes = {} \/ listed = {} THEN <<FALSE, <<>>>>
        ELSE
          LET first == CHOOSE i \in listed : \A j \in listed : i <= j
              parent_canon == canonicalize_remote(remotes[fork_remote_names[first]])
              origin_canon == IF "origin" \in DOMAIN remotes
                              THEN canonicalize_remote(remotes["origin"]) ELSE <<>>
              names == {fork_remote_names[i] : i \in 1..Len(fork_remote_names)}
          IN  IF origin_canon # <<>> /\ parent_canon # <<>> /\ origin_canon # parent_canon
              THEN <<TRUE, parent_canon>>
              ELSE IF \E n \in DOMAIN remotes \ names :
                         LET c == canonicalize_remote(remotes[n])
                         IN  c # <<>> /\ parent_canon # <<>> /\ c # parent_canon
              THEN <<TRUE, parent_canon>>
              ELSE <<FALSE, parent_canon>>

----------------------------------------------------------------------------
(* analysis_selection.py: discover_and_select_repos.  Paths are lists of   *)
(* segments; the directories of the model and what git answers in them:    *)
(*   /w/a  origin git@GitHub.com:Org/Repo.git          last commit at 10   *)
(*   /w/a/sub  a directory with a .git entry inside the work tree of /w/a  *)
(*   /w/b  origin https://github.com/org/repo/         last commit at 20   *)
(*   /w/c  origin https://github.com/org/repo.git      no commit           *)
(*   /w/d  origin https://github.com/org/tool          last commit at 7    *)
(*   /w/f  rev-parse fails                                                 *)
(*   /w/g  no remotes                                                      *)
(*   /w/h  origin https://github.com/me/repo, Upstream and upstream        *)
(*         https://github.com/org/repo                 last commit at 30   *)
(*   /w/i  origin https://gitlab.com/me/notes          last commit at 15   *)

Candidates ==
    { <<"", "w", "a">>, <<"", "w", "a", "sub">>, <<"", "w", "b">>, <<"", "w", "c">>,
      <<"", "w", "d">>, <<"", "w", "f">>, <<"", "w", "g">>, <<"", "w", "h">>,
      <<"", "w", "i">> }

NoPath == <<>>

NoTs == -1

\* git rev-parse --show-toplevel in the candidate, resolved.
get_repo_toplevel(cand) ==
    IF cand[3] = "f" THEN NoPath ELSE <<"", "w", cand[3]>>

OrgRepo == <<"org", "repo">>

get_remote_urls(top) ==
    CASE top[3] = "a" -> [n \in {"origin"} |-> Url("scp", "GitHub.com", <<"Org", "Repo">>, TRUE, 0)]
      [] top[3] = "b" -> [n \in {"origin"} |-> Url("url", "github.com", OrgRepo, FALSE, 1)]
      [] top[3] = "c" -> [n \in {"origin"} |-> Url("url", "github.com", OrgRepo, TRUE, 0)]
      [] top[3] = "d" -> [n \in {"origin"} |-> Url("url", "github.com", <<"org", "tool">>, FALSE, 0)]
      [] top[3] = "h" -> [n \in {"origin", "Upstream", "upstream"} |->
                            IF n = "origin"
                            THEN Url("url", "github.com", <<"me", "repo">>, FALSE, 0)
                            ELSE Url("url", "github.com", OrgRepo, FALSE, 0)]
      [] top[3] = "i" -> [n \in {"origin"} |-> Url("url", "gitlab.com", <<"me", "notes">>, FALSE, 0)]
      [] OTHER -> [n \in {} |-> BlankUrl]

\* The %ct of git log -n 1 --all; NoTs when there is no output.
get_last_commit(top) ==
    CASE top[3] = "a" -> 10
      [] top[3] = "b" -> 20
      [] top[3] = "d" -> 7
      [] top[3] = "h" -> 30
      [] top[3] = "i" -> 15
      [] OTHER -> NoTs

\* Path.as_posix() order on the directories of the model.
PathLess(p, q) ==
    LET rank(x) == CASE x[3] = "a" -> 1 [] x[3] = "b" -> 2 [] x[3] = "c" -> 3
                     [] x[3] = "d" -> 4 [] x[3] = "g" -> 5 [] x[3] = "h" -> 6
                     [] OTHER -> 7
    IN  rank(p) < rank(q)

SelConfigs ==
    { [dedupe |-> "remote", include_remote_prefixes |-> {},
       remote_filter_mode |-> "any", exclude_forks |-> FALSE,
       remote_name_priority |-> <<"upstream", "origin">>,
       fork_remote_names |-> <<"upstream">>],
      [dedupe |-> "remote",
       include_remote_prefixes |-> {Url("url", "GitHub.com", <<"Org">>, FALSE, 1)},
       remote_filter_mode |-> "primary", exclude_forks |-> TRUE,
       remote_name_priority |-> <<"origin", "upstream">>,
       fork_remote_names |-> <<"upstream">>],
      [dedupe |-> "path",
       include_remote_prefixes |-> {Url("plain", "github.com", <<"org">>, FALSE, 0)},
       remote_filter_mode |-> "any", exclude_forks |-> FALSE,
       remote_name_priority |-> <<"origin", "upstream">>,
       fork_remote_names |-> <<"upstream">>],
      [dedupe |-> "remote",
       include_remote_prefixes |-> {Url("plain", "github.com", <<"org">>, FALSE, 0)},
       remote_filter_mode |-> "primary", exclude_forks |-> FALSE,
       remote_name_priority |-> <<"origin", "upstream">>,
       fork_remote_names |-> <<"upstream">>] }

repo_key_for(dedupe_key) == <<"sha256">> \o dedupe_key

SelectionRow(cand, top, status, reason, dedupe_key, note) ==
    [candidate_path |-> cand, repo_path |-> top, status |-> status,
     reason |-> reason, dedupe_key |-> dedupe_key, note |-> note]

\* The mutant of prefer_new that takes every later clone.
prefer_new_always(cand_ts, entry_ts) == TRUE

\* The mutant of prefer_new that keeps the clone seen first.
prefer_new_first_seen(cand_ts, entry_ts) == FALSE

\* Line 130.
prefer_new(cand_ts, entry_ts) ==
    cand_ts # NoTs /\ (entry_ts = NoTs \/ cand_ts > entry_ts)

\* One turn of the loop over the candidates (lines 44-167): by_key is the
\* dict as the list of its entries in insertion order.
consider_candidate(sl, c, cand) ==
    LET top     == get_repo_toplevel(cand)
        remotes == get_remote_urls(get_repo_toplevel(cand))
        row(status, reason, dedupe_key, note) ==
            Append(sl.selection_rows,
                   SelectionRow(cand, top, status, reason, dedupe_key, note))
        skipped(reason) ==
            [sl EXCEPT !.selection_rows = row("skipped", reason, <<>>, <<>>)]
        \* Lines 98-121: the first clone seen with this key.
        first_seen(picked, dedupe_key) ==
            [by_key |-> Append(sl.by_key,
                 [key |-> dedupe_key, repo |-> top, repo_key |-> repo_key_for(dedupe_key),
                  remote_name |-> picked.name, remote |-> picked.url,
                  remote_canonical |-> picked.canon, dups |-> <<>>,
                  last_ts |-> get_last_commit(top)]),
             selection_rows |-> row("included", "", dedupe_key, <<>>)]
        \* Lines 122-167: another clone has the key already.
        seen_again(picked, dedupe_key, i, entry, cand_ts, entry_ts) ==
            LET listed(path) == \E j \in 1..Len(entry.dups) : entry.dups[j] = path
            IN
            IF prefer_new(cand_ts, entry_ts)
            THEN [by_key |-> [sl.by_key EXCEPT ![i] =
                     [entry EXCEPT
                        !.dups = IF entry.repo # top /\ ~listed(entry.repo)
                                 THEN Append(@, entry.repo) ELSE @,
                        !.repo = top,
                        !.repo_key = repo_key_for(dedupe_key),
                        !.remote_name = picked.name,
                        !.remote = picked.url,
                        !.remote_canonical = picked.canon,
                        !.last_ts = cand_ts]],
                  selection_rows |->
                      row("included", "", dedupe_key, <<"replaced_clone", entry.repo>>)]
            ELSE [by_key |-> [sl.by_key EXCEPT ![i] =
                     [entry EXCEPT
                        !.last_ts = entry_ts,
                        !.dups = IF top # entry.repo /\ ~listed(top)
                                 THEN Append(@, top) ELSE @]],
                  selection_rows |->
                      row("duplicate", "", dedupe_key, <<"kept_clone", entry.repo>>)]
        at(dedupe_key) == {i \in 1..Len(sl.by_key) : sl.by_key[i].key = dedupe_key}
        found(picked, dedupe_key, i) ==
            seen_again(picked, dedupe_key, i, sl.by_key[i], get_last_commit(top),
                       IF sl.by_key[i].last_ts = NoTs
                       THEN get_last_commit(sl.by_key[i].repo) ELSE sl.by_key[i].last_ts)
        deduped(picked, dedupe_key) ==
            IF at(dedupe_key) = {} THEN first_seen(picked, dedupe_key)
            ELSE found(picked, dedupe_key, CHOOSE i \in at(dedupe_key) : TRUE)
        selected(picked) ==
            IF /\ c.include_remote_prefixes # {}
               /\ c.remote_filter_mode = "primary"
               /\ ~remote_included(picked.url, c.include_remote_prefixes)
            THEN skipped("primary_remote_not_included")
            ELSE deduped(picked, IF c.dedupe = "remote" /\ picked.canon # <<>>
                                 THEN picked.canon ELSE top)
    IN
    IF top = NoPath THEN skipped("not_a_git_repo_after_rev_parse")
    ELSE IF DOMAIN remotes = {} THEN skipped("no_remotes")
    ELSE IF c.exclude_forks /\ detect_fork(remotes, c.fork_remote_names)[1]
    THEN skipped("excluded_fork")
    ELSE IF ~remotes_included(remotes, c.include_remote_prefixes, c.remote_filter_mode)
    THEN skipped("remote_filter_no_match")
    ELSE selected(select_remote(remotes, c.include_remote_prefixes, c.remote_name_priority))

\* Lines 169-173: the entries as tuples, sorted by path.
RECURSIVE sorted_by_path(_)
sorted_by_path(entries) ==
    IF entries = <<>> THEN <<>>
    ELSE LET rest == sorted_by_path(SubSeq(entries, 1, Len(entries) - 1))
             e    == entries[Len(entries)]
             k    == Cardinality({j \in 1..Len(rest) : ~PathLess(e.repo, rest[j].repo)})
         IN  SubSeq(rest, 1, k) \o <<e>> \o SubSeq(rest, k + 1, Len(rest))

----------------------------------------------------------------------------
(* The stream parser as a state machine: one action per line read *)

Shas == {"a", "k", "x"}

SundayPST == Iso(2025, 1, 5, 23, 30, -480)

MondayEET == Iso(2025, 1, 6, 0, 30, 120)

\* What follows the sha in a header line; trailing fields may be missing.
HeaderTails ==
    { <<"Me", " Me@X.com", SundayPST, "s">>,
      <<"Bob", "bob@y.org", MondayEET, "s">>,
      <<"Ann", "">> }

File(path) == RawPath(FALSE, path, <<>>)

\* The parts of the other lines: counts are numbers, -1 is "-", -2 is text
\* int() rejects; the path may be blank or missing.
NumstatLines ==
    { <<3, 0, File(<<"a.py">>)>>,
      <<0, 2, File(<<"src", "b.go">>)>>,
      <<-1, -1, File(<<"logo.bin">>)>>,
      <<1, 1, File(<<"vendor", "c.js">>)>>,
      <<3, 0, File(<<>>)>>,
      <<-2, 1, File(<<"a.py">>)>>,
      <<5>> }

Configs ==
    { [bootstrap |-> BootstrapConfig(3, 2, 9, 10),
       me |-> [emails |-> {"me@x.com"}, names |-> {}, email_globs |-> {},
               name_globs |-> {}, github_usernames |-> {}],
       exclude_path_prefixes |-> {<<"vendor">>},
       exclude_path_globs |-> {},
       bootstrap_exclude_shas |-> {"k"},
       exclude_commits |-> {"x"}] }

NoCode == -1

\* The variables of the other parts, which this part leaves alone.
notParse == <<bootVars, aggVars, selVars, procVars, runVars, callVars, objVars>>

notBoot == <<parseVars, aggVars, selVars, procVars, runVars, callVars, objVars>>

notAgg == <<parseVars, bootVars, selVars, procVars, runVars, callVars, objVars>>

notSel == <<parseVars, bootVars, aggVars, procVars, runVars, callVars, objVars>>

notProc == <<ref, phase, nread, nheaders, ref_skip, clean, bootVars, aggVars, selVars, runVars, callVars, objVars>>

notRun == <<parseVars, bootVars, aggVars, selVars, procVars, callVars, objVars>>

BootIdle == bt_in = <<>> /\ bt_out = <<>>

AggIdle == ag_repos = <<>> /\ ag_out = <<>>

SelIdle ==
    /\ sel_cfg = <<>>
    /\ walked = {}
    /\ sel = <<>>
    /\ repos_to_analyze = <<>>
    /\ sel_phase = "idle"

ProcIdle ==
    /\ proc = <<>>
    /\ stdout_pipe = <<>>
    /\ stderr_pipe = 0
    /\ parent_pc = "idle"
    /\ drain = <<>>

RunIdle == run_args = <<>> /\ futs = <<>> /\ results = <<>> /\ run_pc = "idle"

CallIdle == call_args = <<>> /\ call_out = <<>>

notCall == <<parseVars, bootVars, aggVars, selVars, procVars, runVars, objVars>>

ObjIdle == objects = <<>> /\ ob_repos = <<>> /\ ob_vals = <<>> /\ ob_out = <<>>

notObj == <<parseVars, bootVars, aggVars, selVars, procVars, runVars, callVars>>

ParseIdle ==
    /\ st = InitialState
    /\ ref = InitialState
    /\ phase = "idle"
    /\ nread = 0
    /\ seen_shas = {}
    /\ nheaders = 0
    /\ code = NoCode
    /\ cfg \in Configs
    /\ ref_skip = FALSE
    /\ clean = Rollups(InitialState)

ParseInit ==
    /\ st = InitialState
    /\ ref = InitialState
    /\ phase = "init"
    /\ nread = 0
    /\ seen_shas = {}
    /\ nheaders = 0
    /\ code = NoCode
    /\ cfg \in Configs
    /\ ref_skip = FALSE
    /\ clean = Rollups(InitialState)

\* subprocess.Popen raises (lines 319-353).
StartFail ==
    /\ phase = "init"
    /\ st' = on_start_failure(st)
    /\ ref' = on_start_failure(ref)
    /\ phase' = "done"
    /\ UNCHANGED <<nread, seen_shas, nheaders, code, cfg, ref_skip, clean>>
    /\ UNCHANGED notParse

\* subprocess.Popen succeeds; the stderr thread is started (lines 355-378).
Start ==
    /\ phase = "init"
    /\ phase' = "streaming"
    /\ UNCHANGED <<st, ref, nread, seen_shas, nheaders, code, cfg, ref_skip, clean>>
    /\ UNCHANGED notParse

\* A header line; the history query prints a commit once.
ReadHeader ==
    /\ phase = "streaming"
    /\ nread < MaxLines
    /\ \E sha \in {""} \cup (Shas \ seen_shas), tail \in HeaderTails :
          LET parts == <<sha>> \o tail
              skip  == sha \in cfg.exclude_commits
          IN  /\ st' = on_header(st, cfg, parts)
              /\ ref' = IF skip THEN ref ELSE on_header(ref, cfg, parts)
              /\ ref_skip' = skip
              /\ seen_shas' = IF sha = "" THEN seen_shas ELSE seen_shas \cup {sha}
              /\ nheaders' = IF sha # "" /\ ~skip THEN nheaders + 1 ELSE nheaders
    /\ nread' = nread + 1
    /\ UNCHANGED <<phase, code, cfg, clean>>
    /\ UNCHANGED notParse

\* A non-blank line that is not a header.
ReadNumstat ==
    /\ phase = "streaming"
    /\ nread < MaxLines
    /\ \E parts \in NumstatLines :
          /\ st' = on_numstat(st, cfg, parts)
          /\ ref' = IF ref_skip THEN ref ELSE on_numstat(ref, cfg, parts)
    /\ nread' = nread + 1
    /\ UNCHANGED <<phase, seen_shas, nheaders, code, cfg, ref_skip, clean>>
    /\ UNCHANGED notParse

\* if not line: continue
ReadBlank ==
    /\ phase = "streaming"
    /\ nread < MaxLines
    /\ nread' = nread + 1
    /\ UNCHANGED <<st, ref, phase, seen_shas, nheaders, code, cfg, ref_skip, clean>>
    /\ UNCHANGED notParse

ExitCodes == {0, 1, 128}

\* stdout is at end of file; proc.wait() returns the exit code.
EndOfStream ==
    /\ phase = "streaming"
    /\ \E exit_code \in ExitCodes :
          /\ code' = exit_code
          /\ st' = on_end_of_stream(st, cfg, exit_code)
          /\ ref' = on_end_of_stream(ref, cfg, exit_code)
          /\ clean' = Rollups(on_end_of_stream(st, cfg, 0))
    /\ phase' = "done"
    /\ UNCHANGED <<nread, seen_shas, nheaders, cfg, ref_skip>>
    /\ UNCHANGED notParse

Init == ParseInit /\ BootIdle /\ AggIdle /\ SelIdle /\ ProcIdle /\ RunIdle /\ CallIdle /\ ObjIdle

Next ==
    \/ StartFail
    \/ Start
    \/ ReadHeader
    \/ ReadNumstat
    \/ ReadBlank
    \/ EndOfStream

Spec == Init /\ [][Next]_vars

----------------------------------------------------------------------------
(* Claims about the stream parser, checked under Spec *)

Reconciles(stats, languages) ==
    /\ SumField(languages, "insertions") = stats.insertions_total
    /\ SumField(languages, "deletions") = stats.deletions_total
    /\ SumField(languages, "insertions_me") = stats.insertions_me
    /\ SumField(languages, "deletions_me") = stats.deletions_me

\* C1: once parse_numstat_stream has returned, in both views the sums over
\* all languages of insertions, deletions, insertions_me and deletions_me
\* equal the view's totals.
C1_LanguagesReconcile ==
    phase = "done" =>
        /\ Reconciles(st.stats_excl, st.languages_excl)
        /\ Reconciles(st.stats_boot, st.languages_boot)

CommitsApplied(s) == s.stats_excl.commits_total + s.stats_boot.commits_total

Pending(s, c) == IF s.current_sha # "" /\ s.current_sha \notin c.exclude_commits THEN 1 ELSE 0

\* C4: every header line with a non-empty sha outside exclude_commits is
\* applied exactly once, at the next header or at end of stream: while
\* streaming the commits counted in the two views are the headers read so
\* far but for the one in progress, and on return they are all of them.
C4_EveryHeaderAppliedOnce ==
    /\ phase = "streaming" => CommitsApplied(st) + Pending(st, cfg) = nheaders
    /\ phase = "done" => CommitsApplied(st) = nheaders /\ Pending(st, cfg) = 0

C4_Witness ==
    /\ phase = "done"
    /\ code = 0
    /\ nheaders = 2
    /\ "x" \in seen_shas
    /\ st.stats_excl.commits_total = 2

\* C5: a commit whose sha is in exclude_commits leaves no trace: every
\* rollup and list returned is what the stream without that commit's header
\* and rows yields.
C5_ExcludedCommitAsAbsent ==
    phase = "done" => Rollups(st) = Rollups(ref)

\* C10: a non-zero exit code is handled like a start failure: an error is
\* recorded and the (repository, period) contributes zero rollups.
C10_NonZeroExitZeroRollups ==
    (phase = "done" /\ code \notin {0, NoCode}) =>
        /\ Len(st.errors) >= 1
        /\ Rollups(st) = Rollups(InitialState)

\* C10 as amended: a non-zero exit code records exactly one error string and
\* the (repository, period) contributes the rollups of the commits read from
\* stdout, as with exit code 0; only a start failure yields zero rollups.
C10_NonZeroExitKeepsParsed ==
    /\ (phase = "done" /\ code \notin {0, NoCode}) =>
          /\ Len(st.errors) = 1
          /\ Rollups(st) = clean
          /\ CommitsApplied(st) = nheaders
    /\ (phase = "done" /\ code = NoCode) =>
          /\ Len(st.errors) = 1
          /\ Rollups(st) = Rollups(InitialState)

C10_Witness ==
    /\ phase = "done"
    /\ code = 128
    /\ st.stats_excl.commits_total = 1
    /\ st.stats_excl.insertions_total = 3
    /\ Len(st.errors) = 1

----------------------------------------------------------------------------
(* discover_and_select_repos as a state machine: one action per candidate *)

\* os.walk is top-down: a directory is listed before what lies inside it;
\* the order of siblings is the file system's.
walk_allows(taken, cand) ==
    Len(cand) = 4 => SubSeq(cand, 1, 3) \in taken

SelInit ==
    /\ sel_cfg \in SelConfigs
    /\ walked = {}
    /\ sel = [by_key |-> <<>>, selection_rows |-> <<>>]
    /\ repos_to_analyze = <<>>
    /\ sel_phase = "walking"
    /\ ParseIdle /\ BootIdle /\ AggIdle /\ ProcIdle /\ RunIdle /\ CallIdle /\ ObjIdle

\* The body of the loop for the next candidate (lines 44-167).
TakeCandidate ==
    /\ sel_phase = "walking"
    /\ Cardinality(walked) < MaxCandidates
    /\ \E cand \in Candidates \ walked :
          /\ walk_allows(walked, cand)
          /\ sel' = consider_candidate(sel, sel_cfg, cand)
          /\ walked' = walked \cup {cand}
    /\ UNCHANGED <<sel_cfg, repos_to_analyze, sel_phase>>
    /\ UNCHANGED notSel

\* The candidates are exhausted (lines 169-175).
ReturnSelection ==
    /\ sel_phase = "walking"
    /\ repos_to_analyze' = sorted_by_path(sel.by_key)
    /\ sel_phase' = "done"
    /\ UNCHANGED <<sel_cfg, walked, sel>>
    /\ UNCHANGED notSel

SelNext ==
    \/ TakeCandidate
    \/ ReturnSelection

SpecSel == SelInit /\ [][SelNext]_vars

----------------------------------------------------------------------------
(* Claims about the resolver, checked under SpecSel *)

\* The clones on disk that reached the dedupe step with the given key.
ClonesOf(key) ==
    {sel.selection_rows[i].repo_path : i \in
        {j \in 1..Len(sel.selection_rows) : sel.selection_rows[j].dedupe_key = key}}

Freshest(clones) ==
    CHOOSE p \in clones : \A q \in clones : get_last_commit(q) <= get_last_commit(p)

\* C6: when the clones sharing a dedupe key have pairwise different last
\* commit timestamps, the one selected for analysis is the one with the
\* greatest timestamp, in whatever order they were discovered; an unknown
\* timestamp is below every known one.
C6_FreshestCloneWins ==
    sel_phase = "done" =>
        \A i \in 1..Len(repos_to_analyze) :
            LET e      == repos_to_analyze[i]
                clones == ClonesOf(e.key)
            IN  (\A p, q \in clones : p # q => get_last_commit(p) # get_last_commit(q))
                    => e.repo = Freshest(clones)

C6_Witness ==
    /\ sel_phase = "done"
    /\ \E i \in 1..Len(repos_to_analyze) :
          /\ repos_to_analyze[i].repo = <<"", "w", "b">>
          /\ repos_to_analyze[i].dups = << <<"", "w", "c">>, <<"", "w", "a">> >>

\* C7: among the rows of the audit trail that share a dedupe key exactly
\* one has status 'included', the row of the clone selected for analysis,
\* and every other row of that key has status 'duplicate'.
C7_OneIncludedRowPerKey ==
    sel_phase = "done" =>
        \A i \in 1..Len(repos_to_analyze) :
            LET e    == repos_to_analyze[i]
                rows == {j \in 1..Len(sel.selection_rows) :
                            sel.selection_rows[j].dedupe_key = e.key}
                inc  == {j \in rows : sel.selection_rows[j].status = "included"}
            IN  /\ Cardinality(inc) = 1
                /\ \A j \in inc : sel.selection_rows[j].repo_path = e.repo
                /\ \A j \in rows \ inc : sel.selection_rows[j].status = "duplicate"

\* C18: in 'primary' mode with a non-empty allowlist the allowlist is tested
\* against the primary remote only, the first remote of the repository
\* under (position in remote_name_priority, name): a repository whose
\* primary remote is not on the allowlist is skipped with reason
\* primary_remote_not_included even if another of its remotes is on it.
C18_PrimaryRemoteAloneIsTested ==
    \A i \in 1..Len(sel.selection_rows) :
        LET row     == sel.selection_rows[i]
            remotes == get_remote_urls(row.repo_path)
            primary == select_remote(remotes, {}, sel_cfg.remote_name_priority)
        IN  ( /\ sel_cfg.remote_filter_mode = "primary"
              /\ sel_cfg.include_remote_prefixes # {}
              /\ row.repo_path # NoPath
              /\ DOMAIN remotes # {}
              /\ row.reason # "excluded_fork"
              /\ ~remote_included(primary.url, sel_cfg.include_remote_prefixes) )
            => /\ row.status = "skipped"
               /\ row.reason = "primary_remote_not_included"

\* The list has no path twice.
NoRepeat(paths) == \A i, j \in DOMAIN paths : paths[i] = paths[j] => i = j

\* The duplicates of an entry are the other clones that reached the dedupe
\* step with its key, each one once.
DupsAreTheOtherClones(key, repo, dups) ==
    /\ {dups[j] : j \in DOMAIN dups} = ClonesOf(key) \ {repo}
    /\ NoRepeat(dups)
    /\ \A j \in DOMAIN dups : dups[j] # repo

\* C29: for every repository selected, the duplicates list holds the path
\* of each other clone that shares its dedupe key exactly once and never
\* the path of the selected clone, in any discovery order and after any
\* number of replacements by fresher clones.
C29_DuplicatesAreTheOtherClones ==
    /\ \A i \in 1..Len(sel.by_key) :
          DupsAreTheOtherClones(sel.by_key[i].key, sel.by_key[i].repo, sel.by_key[i].dups)
    /\ \A i \in 1..Len(repos_to_analyze) :
          DupsAreTheOtherClones(repos_to_analyze[i].key, repos_to_analyze[i].repo,
                                repos_to_analyze[i].dups)

\* The clone /w/c was replaced by /w/a, /w/a by /w/b and /w/b by /w/h.
C29_Witness ==
    /\ sel_phase = "done"
    /\ \E i \in 1..Len(repos_to_analyze) :
          /\ repos_to_analyze[i].repo = <<"", "w", "h">>
          /\ repos_to_analyze[i].dups = << <<"", "w", "c">>, <<"", "w", "a">>, <<"", "w", "b">> >>

----------------------------------------------------------------------------
(* The bootstrap classifier on its own: the arguments are drawn, then one  *)
(* of the two implementations is called                                    *)

BootConfigs == {BootstrapConfig(2, 2, 9, 10), BootstrapConfig(10, 3, 9, 10)}

BootInit ==
    /\ bt_in \in [insertions : 0..MaxChurn, deletions : 0..MaxChurn,
                  files_touched : 0..MaxFiles, bootstrap : BootConfigs]
    /\ bt_out = <<>>
    /\ ParseIdle /\ AggIdle /\ SelIdle /\ ProcIdle /\ RunIdle /\ CallIdle /\ ObjIdle

\* apply_commit's call (analysis_repo.py line 186).
ClassifyCommit ==
    /\ bt_out = <<>>
    /\ bt_out' = [by |-> "models",
                  is_boot |-> is_bootstrap(bt_in.bootstrap, bt_in.insertions,
                                           bt_in.deletions, bt_in.files_touched)]
    /\ UNCHANGED bt_in
    /\ UNCHANGED notBoot

\* The spike investigation's call on the same commit.
ExplainSpike ==
    /\ bt_out = <<>>
    /\ bt_out' = [by |-> "explain_spikes",
                  is_boot |-> spike_is_bootstrap(bt_in.bootstrap, bt_in.insertions,
                                                 bt_in.deletions, bt_in.files_touched)]
    /\ UNCHANGED bt_in
    /\ UNCHANGED notBoot

BootNext ==
    \/ ClassifyCommit
    \/ ExplainSpike

SpecBoot == BootInit /\ [][BootNext]_vars

\* C3: BootstrapConfig.is_bootstrap returns true exactly when changed > 0
\* and one of three clauses holds: (1) changed and files_touched reach their
\* thresholds and max(insertions, deletions) / changed >= addition_ratio,
\* (2) that ratio holds and changed >= 8 * changed_threshold, (3)
\* files_touched >= 5 * files_threshold and changed >= 4 * changed_threshold.
C3_ThreeClauses ==
    (bt_out # <<>> /\ bt_out.by = "models") =>
        LET b        == bt_in.bootstrap
            changed  == bt_in.insertions + bt_in.deletions
            dominant == Max2(bt_in.insertions, bt_in.deletions)
            ratio_ok == dominant * b.ratio_den >= b.ratio_num * changed
            clause1  == /\ changed >= b.changed_threshold
                        /\ bt_in.files_touched >= b.files_threshold
                        /\ ratio_ok
            clause2  == ratio_ok /\ changed >= 8 * b.changed_threshold
            clause3  == /\ bt_in.files_touched >= 5 * b.files_threshold
                        /\ changed >= 4 * b.changed_threshold
        IN  bt_out.is_boot = (changed > 0 /\ (clause1 \/ clause2 \/ clause3))

----------------------------------------------------------------------------
(* The aggregators: the list of RepoResult is drawn from repositories      *)
(* analysed by parse_numstat_stream, then any aggregate is computed in its *)
(* three modes, as analysis_reports.py does                                *)

Header(sha, tail) == [kind |-> "header", parts |-> <<sha>> \o tail]

Numstat(added, deleted, path) == [kind |-> "numstat", parts |-> <<added, deleted, File(path)>>]

MeTail == <<"Me", " Me@X.com", SundayPST, "s">>

BobTail == <<"Bob", "bob@y.org", MondayEET, "s">>

\* Histories: one ordinary commit; a bootstrap commit and an ordinary one
\* by another author in the same week; a bootstrap commit alone; a commit
\* of the first author under another spelling of name and address.
SampleStreams ==
    << << Header("a", MeTail), Numstat(3, 0, <<"a.py">>), Numstat(0, 2, <<"src", "b.go">>) >>,
       << Header("a", BobTail), Numstat(4, 0, <<"a.py">>), Numstat(2, 0, <<"src", "b.go">>),
          Header("x", MeTail), Numstat(9, 9, <<"a.py">>),
          Header("k", MeTail), Numstat(1, 1, <<"a.py">>), Numstat(1, 0, <<"vendor", "c.js">>) >>,
       << Header("a", MeTail), Numstat(5, 0, <<"a.py">>), Numstat(5, 0, <<"docs", "x.md">>) >>,
       << Header("a", <<"ME", "me@x.com", SundayPST, "s">>), Numstat(2, 0, <<"a.py">>) >> >>

SampleCfg == CHOOSE c \in Configs : TRUE

\* analyze_repo on the i-th history for the periods 2024 (no commit) and
\* 2025 (the history).
SampleRepo(i) ==
    RepoResult(<<"", "w", "r">>, <<>>, SundayPST, "Me", " Me@X.com", <<"2024", "2025">>,
               [l \in {"2024", "2025"} |->
                   parse_numstat_stream(SampleCfg,
                       IF l = "2025" THEN SampleStreams[i] ELSE <<>>, 0)])

PeriodLabels == {"2023", "2025"}

Period(label) ==
    LET y == IF label = "2023" THEN 2023 ELSE 2025
    IN  [label |-> label, start |-> DaysFromCivil(y, 1, 1), end |-> DaysFromCivil(y + 1, 1, 1)]

AggInit ==
    /\ ag_repos \in UNION {[1..n -> {SampleRepo(i) : i \in 1..Len(SampleStreams)}] :
                              n \in 0..MaxRepos}
    /\ ag_out = <<>>
    /\ ParseIdle /\ BootIdle /\ SelIdle /\ ProcIdle /\ RunIdle /\ CallIdle /\ ObjIdle

\* The three modes of one aggregate: f(include_bootstraps, bootstraps_only).
ThreeModes(fn, label, f(_, _)) ==
    [fn |-> fn, label |-> label, excl |-> f(FALSE, FALSE), only |-> f(FALSE, TRUE),
     incl |-> f(TRUE, FALSE)]

RepoPeriodStats ==
    /\ \E i \in 1..Len(ag_repos), label \in PeriodLabels :
          ag_out' = [fn |-> "repo_period_stats", label |-> label,
                     excl |-> repo_period_stats(ag_repos[i], label, FALSE),
                     only |-> Get(ag_repos[i].period_stats_bootstraps, label, RepoYearStats),
                     incl |-> repo_period_stats(ag_repos[i], label, TRUE)]
    /\ UNCHANGED ag_repos
    /\ UNCHANGED notAgg

AggregatePeriod ==
    /\ \E label \in PeriodLabels :
          LET f(inc, only) == aggregate_period(ag_repos, Period(label), SampleCfg.me, inc, only)
          IN  ag_out' = ThreeModes("aggregate_period", label, f)
    /\ UNCHANGED ag_repos
    /\ UNCHANGED notAgg

AggregateWeekly ==
    /\ \E label \in PeriodLabels :
          LET f(inc, only) == aggregate_weekly(ag_repos, label, inc, only)
          IN  ag_out' = ThreeModes("aggregate_weekly", label, f)
    /\ UNCHANGED ag_repos
    /\ UNCHANGED notAgg

AggregateMeMonthly ==
    /\ \E label \in PeriodLabels :
          LET f(inc, only) == aggregate_me_monthly(ag_repos, label, inc, only)
          IN  ag_out' = ThreeModes("aggregate_me_monthly", label, f)
    /\ UNCHANGED ag_repos
    /\ UNCHANGED notAgg

AggregateMeMonthlyTech ==
    /\ \E label \in PeriodLabels :
          LET f(inc, only) == aggregate_me_monthly_tech(ag_repos, label, inc, only)
          IN  ag_out' = ThreeModes("aggregate_me_monthly_tech", label, f)
    /\ UNCHANGED ag_repos
    /\ UNCHANGED notAgg

AggregateAuthors ==
    /\ \E label \in PeriodLabels :
          LET f(inc, only) == aggregate_authors(ag_repos, label, inc, only)
          IN  ag_out' = ThreeModes("aggregate_authors", label, f)
    /\ UNCHANGED ag_repos
    /\ UNCHANGED notAgg

AggregateLanguages ==
    /\ \E label \in PeriodLabels :
          LET f(inc, only) == aggregate_languages(ag_repos, label, inc, only)
          IN  ag_out' = ThreeModes("aggregate_languages", label, f)
    /\ UNCHANGED ag_repos
    /\ UNCHANGED notAgg

AggregateDirs ==
    /\ \E label \in PeriodLabels :
          LET f(inc, only) == aggregate_dirs(ag_repos, label, inc, only)
          IN  ag_out' = ThreeModes("aggregate_dirs", label, f)
    /\ UNCHANGED ag_repos
    /\ UNCHANGED notAgg

AggNext ==
    \/ RepoPeriodStats
    \/ AggregatePeriod
    \/ AggregateWeekly
    \/ AggregateMeMonthly
    \/ AggregateMeMonthlyTech
    \/ AggregateAuthors
    \/ AggregateLanguages
    \/ AggregateDirs

SpecAgg == AggInit /\ [][AggNext]_vars

----------------------------------------------------------------------------
(* analysis_aggregate.py on objects.  An object is a leaf, whose value     *)
(* holds numbers and strings only (a RepoYearStats, an AuthorStats, a dict *)
(* of counters), or a dict, whose value maps each key to the identity of   *)
(* another object.  The identity of an object is its index in the list of  *)
(* objects H; a new object takes the next index.  Every operator returns   *)
(* the list of objects after the statements it models.                     *)

Leaf(v) == [kind |-> "leaf", val |-> v]

Dict(items) == [kind |-> "dict", val |-> items]

\* d[key] = the object id
SetItem(H, d, key, id) == [H EXCEPT ![d].val = (key :> id) @@ @]

\* The value of an object, with the values of the objects it holds.
RECURSIVE Val(_, _)
Val(H, id) ==
    IF H[id].kind = "leaf" THEN H[id].val
    ELSE [k \in DOMAIN H[id].val |-> Val(H, H[id].val[k])]

\* The objects that can be reached from the objects ids.
RECURSIVE Reach(_, _)
Reach(H, ids) ==
    LET held(i) == IF H[i].kind = "dict" THEN {H[i].val[k] : k \in DOMAIN H[i].val} ELSE {}
        more(next) == IF next = ids THEN ids ELSE Reach(H, next)
    IN  more(ids \cup UNION {held(i) : i \in ids})

\* The fields of a RepoResult the aggregators read, and how many dicts
\* stand between the field and its leaves.
ObjFields ==
    {"period_stats_excl_bootstraps", "period_stats_bootstraps",
     "weekly_by_period_excl_bootstraps", "weekly_by_period_bootstraps",
     "authors_by_period_excl_bootstraps", "authors_by_period_bootstraps",
     "languages_by_period_excl_bootstraps", "languages_by_period_bootstraps",
     "dirs_by_period_excl_bootstraps", "dirs_by_period_bootstraps",
     "me_monthly_by_period_excl_bootstraps", "me_monthly_by_period_bootstraps",
     "me_monthly_tech_by_period_excl_bootstraps", "me_monthly_tech_by_period_bootstraps",
     "excluded_by_period"}

FieldDepth(f) ==
    CASE f \in {"period_stats_excl_bootstraps", "period_stats_bootstraps",
                "excluded_by_period"} -> 1
      [] f \in {"me_monthly_tech_by_period_excl_bootstraps",
                "me_monthly_tech_by_period_bootstraps"} -> 3
      [] OTHER -> 2

\* The objects of a value: its leaves first, the object of the value last.
RECURSIVE Store(_, _, _, _, _)
Store(H, v, depth, keys, items) ==
    IF depth = 0 THEN Append(H, Leaf(v))
    ELSE IF keys = {} THEN Append(H, Dict(items))
    ELSE LET k == CHOOSE x \in keys : TRUE
             rest(H1) == Store(H1, v, depth, keys \ {k}, (k :> Len(H1)) @@ items)
         IN  Bind(Store(H, v[k], depth - 1,
                        IF depth = 1 THEN {} ELSE DOMAIN v[k], EmptyMap), rest)

RECURSIVE StoreFields(_, _, _, _)
StoreFields(H, r, fields, items) ==
    IF fields = {} THEN Append(H, Dict(items))
    ELSE LET f == CHOOSE x \in fields : TRUE
             rest(H1) == StoreFields(H1, r, fields \ {f}, (f :> Len(H1)) @@ items)
         IN  Bind(Store(H, r[f], FieldDepth(f), DOMAIN r[f], EmptyMap), rest)

\* The RepoResult objects of the values rs.
RECURSIVE StoreRepos(_)
StoreRepos(rs) ==
    IF rs = <<>> THEN [objects |-> <<>>, ids |-> <<>>]
    ELSE LET add(prev) ==
                 LET H == StoreFields(prev.objects, rs[Len(rs)], ObjFields, EmptyMap)
                 IN  [objects |-> H, ids |-> Append(prev.ids, Len(H))]
         IN  Bind(StoreRepos(SubSeq(rs, 1, Len(rs) - 1)), add)

\* The mutant of put_copy that stores the object of the source itself.
put_alias(H, dst, key, stats) == SetItem(H, dst, key, stats)

\* dst[key] = {k: int(v) for k, v in stats.items()} and
\* dst[email_key] = AuthorStats(name=stats.name, ...): a new object with the
\* values of stats.
put_copy(H, dst, key, stats) == SetItem(Append(H, Leaf(H[stats].val)), dst, key, Len(H) + 1)

\* cur[k] = int(cur.get(k, 0)) + int(v) for the items of stats; for an
\* AuthorStats the empty name and email are filled and the counts added.
add_into(kind, H, cur, stats) ==
    [H EXCEPT ![cur].val =
        IF kind = "authors"
        THEN merge_author_stats(("k" :> @), ("k" :> H[stats].val))["k"]
        ELSE AddItems(@, H[stats].val)]

\* The loop of merge_breakdown, merge_me_monthly, merge_weekly and
\* merge_author_stats over the keys of src.
RECURSIVE merge_items(_, _, _, _, _)
merge_items(kind, H, dst, src, keys) ==
    IF keys = {} THEN H
    ELSE LET key == CHOOSE k \in keys : TRUE
             rest(H1) == merge_items(kind, H1, dst, src, keys \ {key})
         IN  IF key \notin DOMAIN H[dst].val
             THEN Bind(put_copy(H, dst, key, H[src].val[key]), rest)
             ELSE Bind(add_into(kind, H, H[dst].val[key], H[src].val[key]), rest)

\* The loop of merge_me_monthly_tech over the months of src: a month dst
\* has not gets a new dict with a copy of each tech.
RECURSIVE merge_months(_, _, _, _)
merge_months(H, dst, src, months) ==
    IF months = {} THEN H
    ELSE LET month == CHOOSE k \in months : TRUE
             rest(H1) == merge_months(H1, dst, src, months \ {month})
             into(H1, cur_month, techs) ==
                 merge_items("breakdown", H1, cur_month, techs, DOMAIN H1[techs].val)
         IN  IF month \notin DOMAIN H[dst].val
             THEN Bind(into(SetItem(Append(H, Dict(EmptyMap)), dst, month, Len(H) + 1),
                            Len(H) + 1, H[src].val[month]), rest)
             ELSE Bind(into(H, H[dst].val[month], H[src].val[month]), rest)

merge_obj(kind, H, dst, src) ==
    IF kind = "me_monthly_tech" THEN merge_months(H, dst, src, DOMAIN H[src].val)
    ELSE merge_items(kind, H, dst, src, DOMAIN H[src].val)

ExclName(kind) ==
    CASE kind = "weekly" -> "weekly_by_period_excl_bootstraps"
      [] kind = "me_monthly" -> "me_monthly_by_period_excl_bootstraps"
      [] kind = "me_monthly_tech" -> "me_monthly_tech_by_period_excl_bootstraps"
      [] kind = "authors" -> "authors_by_period_excl_bootstraps"
      [] kind = "languages" -> "languages_by_period_excl_bootstraps"
      [] OTHER -> "dirs_by_period_excl_bootstraps"

BootName(kind) ==
    CASE kind = "weekly" -> "weekly_by_period_bootstraps"
      [] kind = "me_monthly" -> "me_monthly_by_period_bootstraps"
      [] kind = "me_monthly_tech" -> "me_monthly_tech_by_period_bootstraps"
      [] kind = "authors" -> "authors_by_period_bootstraps"
      [] kind = "languages" -> "languages_by_period_bootstraps"
      [] OTHER -> "dirs_by_period_bootstraps"

\* merge(agg, r.<field>.get(period_label, {}))
merge_field(kind, H, agg, r, field, period_label) ==
    LET by_period == H[H[r].val[field]].val
    IN  IF period_label \in DOMAIN by_period
        THEN merge_obj(kind, H, agg, by_period[period_label])
        ELSE H

\* for r in repos: if bootstraps_only: merge(agg, boot) else: merge(agg,
\* excl); if include_bootstraps: merge(agg, boot)
RECURSIVE merge_loop_obj(_, _, _, _, _, _, _)
merge_loop_obj(kind, H, agg, repos, period_label, include_bootstraps, bootstraps_only) ==
    IF repos = <<>> THEN H
    ELSE LET r == Head(repos)
             rest(H1) == merge_loop_obj(kind, H1, agg, Tail(repos), period_label,
                                        include_bootstraps, bootstraps_only)
             boot(H1) == merge_field(kind, H1, agg, r, BootName(kind), period_label)
             excl(H1) == merge_field(kind, H1, agg, r, ExclName(kind), period_label)
         IN  IF bootstraps_only THEN Bind(boot(H), rest)
             ELSE IF include_bootstraps THEN Bind(boot(excl(H)), rest)
             ELSE Bind(excl(H), rest)

\* out[key] = {...} with the derived fields, for every key of agg; for
\* me_monthly_tech (depth 1) out[month] = {} and out[month][tech] = {...}.
RECURSIVE derive(_, _, _, _, _, _)
derive(kind, H, out, agg, keys, depth) ==
    IF keys = {} THEN H
    ELSE LET key == CHOOSE k \in keys : TRUE
             stats == H[agg].val[key]
             new == Len(H) + 1
             rest(H1) == derive(kind, H1, out, agg, keys \ {key}, depth)
         IN  IF depth = 0
             THEN Bind(SetItem(Append(H, Leaf(IF kind \in {"languages", "dirs"}
                                              THEN WithOthers(H[stats].val)
                                              ELSE WithChanged(H[stats].val))),
                               out, key, new), rest)
             ELSE Bind(derive(kind, SetItem(Append(H, Dict(EmptyMap)), out, key, new),
                              new, stats, DOMAIN H[stats].val, depth - 1), rest)

\* aggregate_weekly, aggregate_me_monthly, aggregate_me_monthly_tech,
\* aggregate_authors, aggregate_languages and aggregate_dirs: the objects
\* after the call and the object returned.
aggregate_obj(kind, H, repos, period_label, include_bootstraps, bootstraps_only) ==
    LET agg == Len(H) + 1
        returned(H1) ==
            IF kind = "authors" THEN [objects |-> H1, out |-> agg]
            ELSE [objects |-> derive(kind, Append(H1, Dict(EmptyMap)), Len(H1) + 1, agg,
                                     DOMAIN H1[agg].val,
                                     IF kind = "me_monthly_tech" THEN 1 ELSE 0),
                  out |-> Len(H1) + 1]
    IN  Bind(merge_loop_obj(kind, Append(H, Dict(EmptyMap)), agg, repos, period_label,
                                include_bootstraps, bootstraps_only), returned)

\* add_repo_year_stats(dst, r.<field>.get(period_label, RepoYearStats()))
add_field(H, dst, r, field, period_label) ==
    LET by_period == H[H[r].val[field]].val
    IN  IF period_label \in DOMAIN by_period
        THEN [H EXCEPT ![dst].val = add_repo_year_stats(@, H[by_period[period_label]].val)]
        ELSE H

repo_period_stats_obj(H, r, period_label, include_bootstraps) ==
    LET out == Len(H) + 1
        boot(H1) == IF include_bootstraps
                    THEN add_field(H1, out, r, "period_stats_bootstraps", period_label)
                    ELSE H1
    IN  [objects |-> boot(add_field(Append(H, Leaf(RepoYearStats)), out, r,
                                    "period_stats_excl_bootstraps", period_label)),
         out |-> out]

\* The loop of aggregate_period on the object total: ys is the object of
\* the RepoResult when bootstraps_only, the object repo_period_stats
\* returns otherwise.
RECURSIVE period_loop_obj(_, _, _, _, _, _)
period_loop_obj(H, total, repos, period_label, include_bootstraps, bootstraps_only) ==
    IF repos = <<>> THEN H
    ELSE LET r == Head(repos)
             rest(H1) == period_loop_obj(H1, total, Tail(repos), period_label,
                                         include_bootstraps, bootstraps_only)
             add(call) ==
                 [call.objects EXCEPT
                     ![total].val = add_repo_year_stats(@, call.objects[call.out].val)]
         IN  IF bootstraps_only
             THEN Bind(add_field(H, total, r, "period_stats_bootstraps", period_label),
                       rest)
             ELSE Bind(Bind(repo_period_stats_obj(H, r, period_label, include_bootstraps),
                            add), rest)

\* The RepoResult values of the objects repos; the fields the aggregators
\* do not merge are those of vals.
RepoValues(H, repos, vals) == [i \in DOMAIN repos |-> Val(H, repos[i]) @@ vals[i]]

aggregate_period_obj(H, repos, vals, period, me, include_bootstraps, bootstraps_only) ==
    LET total == Len(H) + 1
        returned(H1) ==
            [objects |-> Append(H1, Leaf(aggregate_period(RepoValues(H1, repos, vals), period,
                                                          me, include_bootstraps,
                                                          bootstraps_only))),
             out |-> Len(H1) + 1]
    IN  Bind(period_loop_obj(Append(H, Leaf(RepoYearStats)), total, repos, period.label,
                                 include_bootstraps, bootstraps_only), returned)

\* aggregate_excluded: agg[k] += int(v) on a new dict, returned as dict(agg).
aggregate_excluded_obj(H, repos, vals, period_label) ==
    [objects |-> Append(H, Leaf(aggregate_excluded(RepoValues(H, repos, vals), period_label))),
     out |-> Len(H) + 1]

\* The objects when a call starts: what the previous call returned is
\* released unless an object of a RepoResult holds on to it.  The objects
\* of the RepoResults are the first ones, up to the last RepoResult.
Released(H, repos) ==
    LET base == IF repos = <<>> THEN 0 ELSE repos[Len(repos)]
        held(i) == IF H[i].kind = "dict" THEN {H[i].val[k] : k \in DOMAIN H[i].val} ELSE {}
    IN  IF \A i \in 1..base : \A j \in held(i) : j <= base
        THEN SubSeq(H, 1, base)
        ELSE H

ObjInit ==
    /\ ob_vals \in UNION {[1..n -> {SampleRepo(i) : i \in 2..Len(SampleStreams)}] :
                             n \in 0..MaxRepos}
    /\ objects = StoreRepos(ob_vals).objects
    /\ ob_repos = StoreRepos(ob_vals).ids
    /\ ob_out = <<>>
    /\ ParseIdle /\ BootIdle /\ AggIdle /\ SelIdle /\ ProcIdle /\ RunIdle /\ CallIdle

AggKinds == {"weekly", "me_monthly", "me_monthly_tech", "authors", "languages", "dirs"}

\* include_bootstraps and bootstraps_only as the callers pass them.
AggModes == {<<FALSE, FALSE>>, <<TRUE, FALSE>>, <<FALSE, TRUE>>}

CallAggregate ==
    \E kind \in AggKinds, label \in PeriodLabels, mode \in AggModes :
        \E call \in {aggregate_obj(kind, Released(objects, ob_repos), ob_repos, label,
                                   mode[1], mode[2])} :
            /\ objects' = call.objects
            /\ ob_out' = [fn |-> kind, label |-> label, include_bootstraps |-> mode[1],
                          bootstraps_only |-> mode[2], out |-> call.out]
            /\ UNCHANGED <<ob_repos, ob_vals>>
            /\ UNCHANGED notObj

CallAggregatePeriod ==
    \E label \in PeriodLabels, mode \in AggModes :
        \E call \in {aggregate_period_obj(Released(objects, ob_repos), ob_repos, ob_vals,
                                          Period(label), SampleCfg.me, mode[1], mode[2])} :
            /\ objects' = call.objects
            /\ ob_out' = [fn |-> "period", label |-> label, include_bootstraps |-> mode[1],
                          bootstraps_only |-> mode[2], out |-> call.out]
            /\ UNCHANGED <<ob_repos, ob_vals>>
            /\ UNCHANGED notObj

CallAggregateExcluded ==
    \E label \in PeriodLabels :
        \E call \in {aggregate_excluded_obj(Released(objects, ob_repos), ob_repos, ob_vals,
                                            label)} :
            /\ objects' = call.objects
            /\ ob_out' = [fn |-> "excluded", label |-> label, include_bootstraps |-> FALSE,
                          bootstraps_only |-> FALSE, out |-> call.out]
            /\ UNCHANGED <<ob_repos, ob_vals>>
            /\ UNCHANGED notObj

CallRepoPeriodStats ==
    \E i \in DOMAIN ob_repos, label \in PeriodLabels, inc \in BOOLEAN :
        \E call \in {repo_period_stats_obj(Released(objects, ob_repos), ob_repos[i], label,
                                           inc)} :
            /\ objects' = call.objects
            /\ ob_out' = [fn |-> "repo_period_stats", label |-> label,
                          include_bootstraps |-> inc, bootstraps_only |-> FALSE,
                          out |-> call.out]
            /\ UNCHANGED <<ob_repos, ob_vals>>
            /\ UNCHANGED notObj

ObjNext ==
    \/ CallAggregate
    \/ CallAggregatePeriod
    \/ CallAggregateExcluded
    \/ CallRepoPeriodStats

SpecObj == ObjInit /\ [][ObjNext]_vars

----------------------------------------------------------------------------
(* Claims about the aggregators and the objects of their arguments,        *)
(* checked under SpecObj                                                   *)

\* C26: the merge and aggregation operations only read the RepoResults:
\* after any sequence of aggregation calls every field of every RepoResult
\* has its original value, and no object that can be reached from what an
\* aggregation returned can be reached from a RepoResult.
C26_AggregationOnlyReadsRepoResults ==
    /\ \A i \in DOMAIN ob_repos :
          Val(objects, ob_repos[i]) = [f \in ObjFields |-> ob_vals[i][f]]
    /\ ob_out # <<>> =>
          Reach(objects, {ob_out.out})
              \cap Reach(objects, {ob_repos[i] : i \in DOMAIN ob_repos}) = {}

\* Two repositories were merged into one weekly bucket, bootstraps included.
C26_Witness ==
    /\ ob_out # <<>>
    /\ ob_out.fn = "weekly"
    /\ ob_out.include_bootstraps
    /\ Len(ob_repos) = 2
    /\ \E week \in DOMAIN Val(objects, ob_out.out) :
          /\ Val(objects, ob_out.out)[week].commits >= 2
          /\ \A i \in DOMAIN ob_repos :
                week \in DOMAIN Get(ob_vals[i].weekly_by_period_excl_bootstraps,
                                    ob_out.label, EmptyMap)

----------------------------------------------------------------------------
(* Claims about the aggregators, checked under SpecAgg *)

\* incl[f] = excl[f] + only[f] for each field, a missing record counting 0.
AddsUp(incl, excl, only, fields) ==
    \A f \in fields : incl[f] = (IF excl = <<>> THEN 0 ELSE excl[f])
                                + (IF only = <<>> THEN 0 ELSE only[f])

\* The same for every key of three maps of records.
MapAddsUp(incl, excl, only, fields) ==
    /\ DOMAIN incl = DOMAIN excl \cup DOMAIN only
    /\ \A k \in DOMAIN incl :
          AddsUp(incl[k], Get(excl, k, <<>>), Get(only, k, <<>>), fields)

CidFields == {"commits", "insertions", "deletions"}

BreakdownFields ==
    {"insertions", "deletions", "changed", "insertions_me", "deletions_me", "changed_me",
     "insertions_others", "deletions_others", "changed_others"}

\* C2: for every repository, period and rollup key (period totals, authors,
\* languages, directories, weekly and monthly buckets) the value aggregated
\* with include_bootstraps=True is the value with include_bootstraps=False
\* plus the value with bootstraps_only=True.
C2_IncludingIsExclPlusOnly ==
    ag_out # <<>> =>
        CASE ag_out.fn = "repo_period_stats" ->
                AddsUp(ag_out.incl, ag_out.excl, ag_out.only, DOMAIN RepoYearStats)
          [] ag_out.fn = "aggregate_period" ->
                AddsUp(ag_out.incl, ag_out.excl, ag_out.only,
                       {"commits_total", "commits_me", "commits_others",
                        "insertions_total", "deletions_total", "changed_total",
                        "insertions_me", "deletions_me", "changed_me",
                        "insertions_others", "deletions_others", "changed_others"})
          [] ag_out.fn \in {"aggregate_weekly", "aggregate_me_monthly"} ->
                MapAddsUp(ag_out.incl, ag_out.excl, ag_out.only, CidFields \cup {"changed"})
          [] ag_out.fn = "aggregate_authors" ->
                MapAddsUp(ag_out.incl, ag_out.excl, ag_out.only, CidFields)
          [] ag_out.fn = "aggregate_me_monthly_tech" ->
                /\ DOMAIN ag_out.incl = DOMAIN ag_out.excl \cup DOMAIN ag_out.only
                /\ \A m \in DOMAIN ag_out.incl :
                      MapAddsUp(ag_out.incl[m], Get(ag_out.excl, m, EmptyMap),
                                Get(ag_out.only, m, EmptyMap), CidFields \cup {"changed"})
          [] OTHER ->
                MapAddsUp(ag_out.incl, ag_out.excl, ag_out.only, BreakdownFields)

\* Two repositories, the same language counted in both views.
C2_Witness ==
    /\ ag_out # <<>>
    /\ ag_out.fn = "aggregate_languages"
    /\ Len(ag_repos) = 2
    /\ "Python" \in DOMAIN ag_out.excl \cap DOMAIN ag_out.only
    /\ ag_out.excl["Python"].insertions > 0
    /\ ag_out.only["Python"].insertions > 0
    /\ ag_out.incl["Python"].insertions_me < ag_out.incl["Python"].insertions

\* The aggregate `fn` in its three modes over a list of repositories.
AggregateOf(fn, repos, label) ==
    LET f(inc, only) ==
            CASE fn = "aggregate_period" ->
                    aggregate_period(repos, Period(label), SampleCfg.me, inc, only)
              [] fn = "aggregate_weekly" -> aggregate_weekly(repos, label, inc, only)
              [] fn = "aggregate_me_monthly" -> aggregate_me_monthly(repos, label, inc, only)
              [] fn = "aggregate_me_monthly_tech" ->
                    aggregate_me_monthly_tech(repos, label, inc, only)
              [] fn = "aggregate_authors" -> aggregate_authors(repos, label, inc, only)
              [] fn = "aggregate_languages" -> aggregate_languages(repos, label, inc, only)
              [] OTHER -> aggregate_dirs(repos, label, inc, only)
    IN  ThreeModes(fn, label, f)

\* The lists that hold the repositories of ag_repos in another order.
Reorderings ==
    {[i \in DOMAIN ag_repos |-> ag_repos[p[i]]] :
        p \in {q \in [DOMAIN ag_repos -> DOMAIN ag_repos] :
                  \A i, k \in DOMAIN ag_repos : i # k => q[i] # q[k]}}

\* An author map without the stored name and email.
Totals(authors) ==
    [k \in DOMAIN authors |-> [f \in CidFields |-> authors[k][f]]]

\* C11: merging the repository results gives the same aggregate, in every
\* numeric total and in every author's stored name and email, for every
\* order in which the results are merged.
C11_MergeOrderIrrelevant ==
    (ag_out # <<>> /\ ag_out.fn # "repo_period_stats") =>
        \A repos \in Reorderings : AggregateOf(ag_out.fn, repos, ag_out.label) = ag_out

\* C11 as amended: every numeric total is the same for every merge order;
\* the name and the email stored for an author are those of the first
\* result, in merge order, in which they are not blank.
C11_TotalsOrderIrrelevant ==
    (ag_out # <<>> /\ ag_out.fn # "repo_period_stats") =>
        /\ \A repos \in Reorderings :
              LET other == AggregateOf(ag_out.fn, repos, ag_out.label)
              IN  IF ag_out.fn = "aggregate_authors"
                  THEN /\ Totals(other.excl) = Totals(ag_out.excl)
                       /\ Totals(other.only) = Totals(ag_out.only)
                       /\ Totals(other.incl) = Totals(ag_out.incl)
                  ELSE other = ag_out
        /\ ag_out.fn = "aggregate_authors" =>
              \A k \in DOMAIN ag_out.excl, f \in {"name", "email"} :
                  LET stored(i) == Get(Get(ag_repos[i].authors_by_period_excl_bootstraps,
                                           ag_out.label, EmptyMap), k, AuthorStats("", ""))[f]
                      named == {i \in DOMAIN ag_repos : stored(i) # ""}
                  IN  ag_out.excl[k][f] =
                          IF named = {} THEN ""
                          ELSE stored(CHOOSE i \in named : \A j \in named : i <= j)

\* Two repositories that spell the name of one author differently.
C11_Witness ==
    /\ ag_out # <<>>
    /\ ag_out.fn = "aggregate_authors"
    /\ Len(ag_repos) = 2
    /\ "me@x.com" \in DOMAIN ag_out.excl
    /\ ag_out.excl["me@x.com"].name = "ME"
    /\ ag_out.excl["me@x.com"].commits = 2
    /\ \E repos \in Reorderings :
          AggregateOf(ag_out.fn, repos, ag_out.label).excl["me@x.com"].name = "Me"

----------------------------------------------------------------------------
(* parse_numstat_stream and the history subprocess as three processes      *)
(* joined by two bounded pipes (lines 355-436): the subprocess writes      *)
(* lines to stdout and text to stderr and blocks while the pipe it writes  *)
(* to is full; the caller reads stdout line by line; the drain_stderr      *)
(* thread reads stderr.  stdout_pipe holds lines, stderr_pipe characters.  *)

ReadSize == 8192

MaxStderrChars == 50000

ProcLines ==
    { Header("a", MeTail), Numstat(3, 0, <<"a.py">>), Numstat(0, 2, <<"src", "b.go">>) }

\* The sizes of the subprocess's writes to stderr: a warning, a flood.
StderrWrites == {100, 20000}

NoWrite == [fd |-> 0, line |-> <<>>, left |-> 0]

ProcInit ==
    /\ proc = [pc |-> "running", writes |-> 0, pending |-> NoWrite, exit_code |-> NoCode]
    /\ stdout_pipe = <<>>
    /\ stderr_pipe = 0
    /\ parent_pc = "reading"
    /\ drain = [pc |-> "running", partial |-> 0, stderr_chars |-> 0]
    /\ ParseIdle /\ BootIdle /\ AggIdle /\ SelIdle /\ RunIdle /\ CallIdle /\ ObjIdle

\* The subprocess calls write(1, line) or write(2, text).
ChildBeginWrite ==
    /\ proc.pc = "running"
    /\ proc.pending = NoWrite
    /\ proc.writes < MaxWrites
    /\ \/ \E line \in ProcLines :
            /\ line.kind = "header" => line.parts[1] \notin seen_shas
            /\ proc' = [proc EXCEPT !.writes = @ + 1,
                                    !.pending = [fd |-> 1, line |-> line, left |-> 1]]
            /\ seen_shas' = IF line.kind = "header"
                            THEN seen_shas \cup {line.parts[1]} ELSE seen_shas
       \/ \E n \in StderrWrites :
            /\ proc' = [proc EXCEPT !.writes = @ + 1,
                                    !.pending = [fd |-> 2, line |-> <<>>, left |-> n]]
            /\ UNCHANGED seen_shas
    /\ UNCHANGED <<stdout_pipe, stderr_pipe, parent_pc, drain, st, cfg, code>>
    /\ UNCHANGED notProc

\* The write to stdout goes through once the pipe has room for the line.
ChildPushStdout ==
    /\ proc.pc = "running"
    /\ proc.pending.fd = 1
    /\ Len(stdout_pipe) < StdoutCapacity
    /\ stdout_pipe' = Append(stdout_pipe, proc.pending.line)
    /\ proc' = [proc EXCEPT !.pending = NoWrite]
    /\ UNCHANGED <<stderr_pipe, parent_pc, drain, st, cfg, code, seen_shas>>
    /\ UNCHANGED notProc

\* The write to stderr moves what fits into the pipe and goes on blocking
\* for the rest.
ChildPushStderr ==
    /\ proc.pc = "running"
    /\ proc.pending.fd = 2
    /\ stderr_pipe < StderrCapacity
    /\ LET n == IF proc.pending.left <= StderrCapacity - stderr_pipe
                THEN proc.pending.left ELSE StderrCapacity - stderr_pipe
       IN  /\ stderr_pipe' = stderr_pipe + n
           /\ proc' = [proc EXCEPT !.pending =
                          IF proc.pending.left = n THEN NoWrite
                          ELSE [proc.pending EXCEPT !.left = @ - n]]
    /\ UNCHANGED <<stdout_pipe, parent_pc, drain, st, cfg, code, seen_shas>>
    /\ UNCHANGED notProc

\* The subprocess exits, which closes its ends of both pipes.
ChildExit ==
    /\ proc.pc = "running"
    /\ proc.pending = NoWrite
    /\ \E exit_code \in ExitCodes :
          proc' = [proc EXCEPT !.pc = "exited", !.exit_code = exit_code]
    /\ UNCHANGED <<stdout_pipe, stderr_pipe, parent_pc, drain, st, cfg, code, seen_shas>>
    /\ UNCHANGED notProc

\* for raw_line in proc.stdout: one turn of the loop (lines 379-427).
ParentReadLine ==
    /\ parent_pc = "reading"
    /\ stdout_pipe # <<>>
    /\ st' = parse_lines(st, cfg, <<Head(stdout_pipe)>>)
    /\ stdout_pipe' = Tail(stdout_pipe)
    /\ UNCHANGED <<proc, stderr_pipe, parent_pc, drain, cfg, code, seen_shas>>
    /\ UNCHANGED notProc

\* stdout is at end of file and proc.wait() returns (line 429).
ParentWait ==
    /\ parent_pc = "reading"
    /\ stdout_pipe = <<>>
    /\ proc.pc = "exited"
    /\ code' = proc.exit_code
    /\ parent_pc' = "joining"
    /\ UNCHANGED <<proc, stdout_pipe, stderr_pipe, drain, st, cfg, seen_shas>>
    /\ UNCHANGED notProc

\* stderr_thread.join() returns; the rest of the function (lines 430-466).
ParentJoin ==
    /\ parent_pc = "joining"
    /\ drain.pc = "done"
    /\ st' = on_end_of_stream(st, cfg, code)
    /\ parent_pc' = "returned"
    /\ UNCHANGED <<proc, stdout_pipe, stderr_pipe, drain, cfg, code, seen_shas>>
    /\ UNCHANGED notProc

\* The mutant of drain_may_run that reads stderr only after the stdout loop.
drain_after_stdout(pc) == pc = "joining"

\* The thread is started before the stdout loop (lines 372-376) and runs
\* until it is joined.
drain_may_run(pc) == pc \in {"reading", "joining"}

\* Lines 366-370 for a chunk of n characters.
keep_chunk(d, n) ==
    IF d.stderr_chars >= MaxStderrChars THEN [d EXCEPT !.partial = 0]
    ELSE [d EXCEPT !.partial = 0,
                   !.stderr_chars = IF n <= MaxStderrChars - @
                                    THEN @ + n ELSE MaxStderrChars]

\* proc.stderr.read(8192) takes what the pipe holds and returns once it has
\* 8192 characters.
DrainRead ==
    /\ drain.pc = "running"
    /\ drain_may_run(parent_pc)
    /\ stderr_pipe > 0
    /\ LET n == IF stderr_pipe <= ReadSize - drain.partial
                THEN stderr_pipe ELSE ReadSize - drain.partial
       IN  /\ stderr_pipe' = stderr_pipe - n
           /\ drain' = IF drain.partial + n = ReadSize
                       THEN keep_chunk(drain, ReadSize)
                       ELSE [drain EXCEPT !.partial = @ + n]
    /\ UNCHANGED <<proc, stdout_pipe, parent_pc, st, cfg, code, seen_shas>>
    /\ UNCHANGED notProc

\* stderr is at end of file: the read returns what it has, the next one
\* returns nothing and the thread ends.
DrainEOF ==
    /\ drain.pc = "running"
    /\ drain_may_run(parent_pc)
    /\ stderr_pipe = 0
    /\ proc.pc = "exited"
    /\ drain' = [(IF drain.partial > 0 THEN keep_chunk(drain, drain.partial) ELSE drain)
                    EXCEPT !.pc = "done"]
    /\ UNCHANGED <<proc, stdout_pipe, stderr_pipe, parent_pc, st, cfg, code, seen_shas>>
    /\ UNCHANGED notProc

ChildStep == ChildBeginWrite \/ ChildPushStdout \/ ChildPushStderr \/ ChildExit

ParentStep == ParentReadLine \/ ParentWait \/ ParentJoin

DrainStep == DrainRead \/ DrainEOF

ProcNext ==
    \/ ChildBeginWrite
    \/ ChildPushStdout
    \/ ChildPushStderr
    \/ ChildExit
    \/ ParentReadLine
    \/ ParentWait
    \/ ParentJoin
    \/ DrainRead
    \/ DrainEOF

\* Each of the three is scheduled: a step it can take is taken.
SpecProc ==
    /\ ProcInit
    /\ [][ProcNext]_vars
    /\ WF_vars(ChildStep)
    /\ WF_vars(ParentStep)
    /\ WF_vars(DrainStep)

\* C8: parse_numstat_stream returns, however the subprocess's writes to
\* stdout and stderr interleave over the bounded pipes, and the errors it
\* returns are empty when the exit code is 0.
C8_TerminatesWithoutErrors ==
    /\ <>(parent_pc = "returned")
    /\ [](parent_pc = "returned" /\ code = 0 => st.errors = <<>>)

\* More stderr than the pipe and the cap hold, around a commit on stdout.
C8_Witness ==
    /\ parent_pc = "returned"
    /\ code = 0
    /\ drain.stderr_chars = MaxStderrChars
    /\ st.stats_excl.commits_total = 1
    /\ st.errors = <<>>

----------------------------------------------------------------------------
(* run_analysis (analysis_run.py lines 164-216): one future per repository *)
(* on a pool of --jobs threads, collected with as_completed                *)

RunRepos == { <<"", "w", "a">>, <<"", "w", "b">>, <<"", "w", "d">> }

\* What git does while one repository is analysed: the history is read, the
\* history subprocess cannot start, it exits non-zero, or run_git raises
\* (subprocess.TimeoutExpired, UnicodeDecodeError) in get_first_commit or
\* get_last_commit.
GitOutcomes == {"ok", "start_failure", "nonzero_exit", "git_call_raises"}

\* analyze_repo for one period, given what git does.
analyze_repo(repo, outcome) ==
    IF outcome = "git_call_raises" THEN [raised |-> TRUE, value |-> <<>>]
    ELSE [raised |-> FALSE,
          value |-> RepoResult(repo, <<>>, SundayPST, "Me", " Me@X.com", <<"2025">>,
                       [l \in {"2025"} |->
                           IF outcome = "start_failure" THEN on_start_failure(InitialState)
                           ELSE parse_numstat_stream(SampleCfg, SampleStreams[1],
                                    IF outcome = "ok" THEN 0 ELSE 128)])]

RunInit ==
    /\ run_args \in {[repos |-> r, jobs |-> j] :
                        r \in {q \in UNION {[1..n -> RunRepos] : n \in 0..MaxRepos} :
                                  \A i, k \in 1..Len(q) : i < k => PathLess(q[i], q[k])},
                        j \in 1..2}
    /\ futs = <<>>
    /\ results = <<>>
    /\ run_pc = "start"
    /\ ParseIdle /\ BootIdle /\ AggIdle /\ SelIdle /\ ProcIdle /\ CallIdle /\ ObjIdle

\* if not repos_to_analyze: return 2 (lines 164-166).
NoRepos ==
    /\ run_pc = "start"
    /\ run_args.repos = <<>>
    /\ run_pc' = "returned_2"
    /\ UNCHANGED <<run_args, futs, results>>
    /\ UNCHANGED notRun

\* Every repository is submitted (lines 187-208).
SubmitAll ==
    /\ run_pc = "start"
    /\ run_args.repos # <<>>
    /\ futs' = [i \in 1..Len(run_args.repos) |->
                   [state |-> "pending", raised |-> FALSE, value |-> <<>>, taken |-> FALSE]]
    /\ run_pc' = "collecting"
    /\ UNCHANGED <<run_args, results>>
    /\ UNCHANGED notRun

\* A free thread of the pool takes the oldest pending work item.
WorkerStart ==
    /\ run_pc \in {"collecting", "raising"}
    /\ Cardinality({i \in DOMAIN futs : futs[i].state = "running"}) < run_args.jobs
    /\ \E i \in DOMAIN futs :
          /\ futs[i].state = "pending"
          /\ \A k \in 1..(i - 1) : futs[k].state # "pending"
          /\ futs' = [futs EXCEPT ![i].state = "running"]
    /\ UNCHANGED <<run_args, results, run_pc>>
    /\ UNCHANGED notRun

\* analyze_repo returns or raises; the future keeps the result or the
\* exception.
WorkerFinish ==
    /\ run_pc \in {"collecting", "raising"}
    /\ \E i \in DOMAIN futs, outcome \in GitOutcomes :
          /\ futs[i].state = "running"
          /\ futs' = [futs EXCEPT ![i] =
                         Bind(analyze_repo(run_args.repos[i], outcome),
                              LAMBDA r : [state |-> "finished", raised |-> r.raised,
                                          value |-> r.value, taken |-> FALSE])]
    /\ UNCHANGED <<run_args, results, run_pc>>
    /\ UNCHANGED notRun

\* One turn of the loop over as_completed (lines 210-212): fut.result()
\* returns the RepoResult or raises the work item's exception.
Collect ==
    /\ run_pc = "collecting"
    /\ \E i \in DOMAIN futs :
          /\ futs[i].state = "finished"
          /\ ~futs[i].taken
          /\ futs' = [futs EXCEPT ![i].taken = TRUE]
          /\ IF futs[i].raised
             THEN run_pc' = "raising" /\ UNCHANGED results
             ELSE results' = Append(results, futs[i].value) /\ UNCHANGED run_pc
    /\ UNCHANGED run_args
    /\ UNCHANGED notRun

\* The exception leaves the with block once the pool has shut down, which
\* waits for the work items still queued or running; nothing is written.
Propagate ==
    /\ run_pc = "raising"
    /\ \A i \in DOMAIN futs : futs[i].state = "finished"
    /\ run_pc' = "raised"
    /\ UNCHANGED <<run_args, futs, results>>
    /\ UNCHANGED notRun

\* Every future was collected: results.sort(key=path) and the reports
\* (line 216 on).
WriteReports ==
    /\ run_pc = "collecting"
    /\ \A i \in DOMAIN futs : futs[i].taken
    /\ results' = [k \in 1..Len(results) |->
                      CHOOSE r \in {results[i] : i \in 1..Len(results)} :
                          Cardinality({i \in 1..Len(results) :
                                          PathLess(results[i].path, r.path)}) = k - 1]
    /\ run_pc' = "returned_0"
    /\ UNCHANGED <<run_args, futs>>
    /\ UNCHANGED notRun

RunNext ==
    \/ NoRepos
    \/ SubmitAll
    \/ WorkerStart
    \/ WorkerFinish
    \/ Collect
    \/ Propagate
    \/ WriteReports

SpecRun == RunInit /\ [][RunNext]_vars

\* C9: a failure inside one work item (the history subprocess cannot start
\* or exits non-zero, or a git call raises) never keeps the other work
\* items from completing and their results from being collected, and the
\* run fails only when there is no repository to analyse.
C9_FailureIsolated ==
    /\ run_pc # "raised"
    /\ run_pc = "returned_2" => run_args.repos = <<>>
    /\ run_pc = "returned_0" =>
          \A i \in DOMAIN futs :
              ~futs[i].raised => \E k \in 1..Len(results) : results[k] = futs[i].value

----------------------------------------------------------------------------
(* Single calls: a function is called once on arguments drawn from the     *)
(* sets below and call_out keeps what it returned                          *)

\* Author timestamps: the two of the weekly test, New Year's Eve west of
\* UTC, a leap day east of UTC, a Monday at midnight, one without offset,
\* a 30th of February, and an empty field.
CallIsos ==
    { SundayPST, MondayEET,
      Iso(2024, 12, 31, 23, 59, -60),
      Iso(2024, 3, 1, 0, 10, 600),
      Iso(2025, 1, 6, 0, 0, 0),
      [Iso(2025, 1, 12, 23, 59, 0) EXCEPT !.tz = FALSE],
      Iso(2025, 2, 30, 12, 0, 0),
      EmptyIso }

CallTails ==
    {<<"Me", " Me@X.com", iso, "s">> : iso \in CallIsos}
    \cup { BobTail, <<"", "me@x.com", SundayPST, "s">>, <<"Ann", "">> }

\* One commit of the history: its header line and `files` numstat lines,
\* each with `ins` insertions and `dele` deletions, on distinct paths.
Commit(sha, tail, files, ins, dele) ==
    <<Header(sha, tail)>>
    \o [i \in 1..files |-> Numstat(ins, dele, <<"src", ToString(i), "a.py">>)]

\* <<files, insertions per file, deletions per file>> of the commits: small,
\* deleting 15 lines in 3 files, adding 100 lines in one file, 20 files
\* with one line in and one out, adding 15 lines in 3 files.
CommitShapes == { <<3, 1, 0>>, <<3, 0, 5>>, <<1, 100, 0>>, <<20, 1, 1>>, <<3, 5, 0>> }

\* The thresholds of the bootstrap tests: 10 lines, 3 files, ratio 0.90.
CallCfg == [SampleCfg EXCEPT !.bootstrap = BootstrapConfig(10, 3, 9, 10)]

\* Histories of one commit, and of two small commits by authors whose
\* addresses normalise to the same key.
CallStreams ==
    {Commit(sha, tail, sh[1], sh[2], sh[3]) :
        sha \in {"a", "k"}, tail \in CallTails, sh \in CommitShapes}
    \cup {Commit("a", t1, 1, 2, 0) \o Commit("k", t2, 1, 0, 1) :
            t1, t2 \in {MeTail, <<"", "me@x.com", SundayPST, "s">>,
                        <<"ME", "", MondayEET, "s">>}}

\* The remotes of a repository: origin, upstream and mirror, each absent or
\* at one of two URLs (get_remote_urls keeps no remote with a blank URL).
CallUrls ==
    { Url("url", "github.com", OrgRepo, FALSE, 0),
      Url("scp", "GitHub.com", <<"me", "Repo">>, TRUE, 0) }

\* Texts of remote URLs: the scheme, scp-like and plain forms, with and
\* without a user, a ".git" suffix in either case, trailing slashes, blanks
\* around the text, and the path of a repository's .git directory.
CallUrlTexts ==
    { <<"https", "://", "github.com", "/", "Org", "/", "Repo">>,
      <<"https", "://", "github.com", "/", "org", "/", "repo", ".git">>,
      <<"https", "://", "github.com", "/", "org", "/", "repo", ".git", "/">>,
      <<"https", "://", "github.com", "/", "org", "/", "repo", "/", "/">>,
      <<" ", "https", "://", "GitHub.com", "/", "org", "/", "repo", " ">>,
      <<"ssh", "://", "git", "@", "github.com", "/", "org", "/", "repo", ".git">>,
      <<"git", "@", "github.com", ":", "me", "/", "Repo", ".git">>,
      <<"git", "@", "GitHub.com", ":", "org", "/", "repo">>,
      <<"github.com", "/", "org", "/", "repo">>,
      <<"github.com", ":", "org", "/", "repo", ".git">>,
      <<"https", "://", "github.com", "/", "org", "/", "repo", ".GIT">>,
      <<"https", "://", "github.com", "/", "org", "/", "repo", ".git", ".git">>,
      <<"/", "srv", "/", "repo", "/", ".git">>,
      <<"/", "srv", "/", "repo", ".git">>,
      <<"https", "://", "github.com", "/", "org", "/", "repo", "/", ".git">> }

CallRemotes ==
    UNION { [names -> CallUrls] : names \in SUBSET {"origin", "upstream", "mirror"} }

CallForkNames == { <<"upstream">>, <<"mirror", "upstream">> }

\* Histories of up to MaxHistory commits of one file each.  The i-th commit
\* has its own sha of three digits, in an order unrelated to i, and a churn
\* given by the shape of the history: growing, shrinking, constant or
\* irregular.
MaxHistory == 53

HistoryShapes == {"growing", "shrinking", "constant", "irregular"}

HistorySha(i) == ToString(100 + ((i * 37) % 499))

HistoryChurn(shape, i) ==
    CASE shape = "growing" -> i
      [] shape = "shrinking" -> 2 * MaxHistory - i
      [] shape = "constant" -> 7
      [] OTHER -> 1 + ((i * 7) % 11)

\* The lines of the i-th commit of the history.
HistoryCommit(shape, i) ==
    << Header(HistorySha(i), BobTail), Numstat(HistoryChurn(shape, i), 0, <<"a.py">>) >>

\* Histories with rows that belong to no commit: before the first header
\* line, or after a header line whose sha is empty.
StrayStreams ==
    { << Numstat(5, 0, <<"a.py">>), Header("a", MeTail), Numstat(2, 0, <<"src", "b.go">>) >>,
      << Header("a", MeTail), Numstat(2, 0, <<"a.py">>), Header("", BobTail),
         Numstat(5, 0, <<"src", "b.go">>), Header("k", BobTail), Numstat(1, 0, <<"a.py">>) >>,
      << Header("a", MeTail), Numstat(2, 0, <<"a.py">>), Header("k", BobTail),
         Numstat(1, 0, <<"a.py">>) >>,
      << Header("a", MeTail), Numstat(2, 0, <<"a.py">>), Header("", BobTail),
         Numstat(5, 0, <<"src", "b.go">>) >> }

\* Histories of one commit with rows under the excluded prefix vendor/ or
\* matching the excluded glob *.bin: rows that would make the commit a
\* bootstrap, rows that would keep it from being one, and no other row.
ExcludedRowStreams ==
    { Commit("a", MeTail, 3, 1, 0) \o << Numstat(20, 0, <<"vendor", "c.js">>) >>,
      << Header("a", MeTail), Numstat(0, 9, <<"vendor", "c.js">>) >>
          \o Tail(Commit("a", MeTail, 3, 5, 0)),
      Commit("a", BobTail, 3, 5, 0) \o << Numstat(0, 9, <<"logo.bin">>) >>,
      << Header("a", BobTail), Numstat(20, 0, <<"vendor", "c.js">>),
         Numstat(7, 0, <<"logo.bin">>) >>,
      Commit("a", MeTail, 3, 5, 0) \o Commit("b", BobTail, 3, 1, 0)
          \o << Numstat(20, 0, <<"vendor", "c.js">>) >> }

ExcludedRowCfg == [CallCfg EXCEPT !.exclude_path_globs = {"*.bin"}]

\* analysis_periods.py: parse_period.  A period spec is the list of its
\* characters.
Digits == <<"0", "1", "2", "3", "4", "5", "6", "7", "8", "9">>

IsDigit(ch) == \E d \in DOMAIN Digits : Digits[d] = ch

\* str.isdigit() of a non-empty string.
AllDigits(chars) == chars # <<>> /\ \A i \in DOMAIN chars : IsDigit(chars[i])

\* int(s) of a string of digits.
RECURSIVE IntOf(_)
IntOf(chars) ==
    IF chars = <<>> THEN 0
    ELSE 10 * IntOf(SubSeq(chars, 1, Len(chars) - 1))
         + (CHOOSE d \in DOMAIN Digits : Digits[d] = chars[Len(chars)]) - 1

\* str(n) of a natural number.
RECURSIVE StrOf(_)
StrOf(n) == IF n < 10 THEN <<Digits[n + 1]>> ELSE Append(StrOf(n \div 10), Digits[(n % 10) + 1])

\* str.upper() on the characters of the model.
UpperChar(ch) == IF ch = "h" THEN "H" ELSE ch

\* str.strip(): the blanks at both ends removed.
RECURSIVE Strip(_)
Strip(chars) ==
    IF chars = <<>> THEN <<>>
    ELSE IF Head(chars) = " " THEN Strip(Tail(chars))
    ELSE IF chars[Len(chars)] = " " THEN Strip(SubSeq(chars, 1, Len(chars) - 1))
    ELSE chars

ValueError == [raised |-> "ValueError"]

\* dt.date(year, month, 1): ValueError unless MINYEAR <= year <= MAXYEAR.
DateOk(year) == year \in 1..9999

\* Period(label, start, end) with both dates built, or the ValueError of
\* dt.date.
PeriodOrError(label, y1, m1, y2, m2) ==
    IF DateOk(y1) /\ DateOk(y2)
    THEN [label |-> label, start |-> <<y1, m1, 1>>, end |-> <<y2, m2, 1>>]
    ELSE ValueError

\* The second branch of parse_period (lines 28-33).
half_period(year, half) ==
    IF half = <<"H", "1">>
    THEN PeriodOrError(StrOf(year) \o <<"H", "1">>, year, 1, year, 7)
    ELSE PeriodOrError(StrOf(year) \o <<"H", "2">>, year, 7, year + 1, 1)

IsHalf(chars) ==
    LET up == [i \in DOMAIN chars |-> UpperChar(chars[i])]
    IN  up \in {<<"H", "1">>, <<"H", "2">>}

RECURSIVE parse_period(_)
parse_period(spec) ==
    LET s == Strip(spec)
        Up(chars) == [i \in DOMAIN chars |-> UpperChar(chars[i])]
    IN  IF Len(s) = 4 /\ AllDigits(s)
        THEN PeriodOrError(s, IntOf(s), 1, IntOf(s) + 1, 1)
        ELSE IF Len(s) = 6 /\ AllDigits(SubSeq(s, 1, 4)) /\ IsHalf(SubSeq(s, 5, 6))
        THEN half_period(IntOf(SubSeq(s, 1, 4)), Up(SubSeq(s, 5, 6)))
        ELSE IF Len(s) = 6 /\ IsHalf(SubSeq(s, 1, 2)) /\ AllDigits(SubSeq(s, 3, 6))
        THEN parse_period(StrOf(IntOf(SubSeq(s, 3, 6))) \o Up(SubSeq(s, 1, 2)))
        ELSE ValueError

\* The period specs of the model.
CallPeriodSpecs ==
    { <<"2", "0", "2", "5">>, <<"2", "0", "2", "5", "H", "1">>,
      <<"2", "0", "2", "5", "H", "2">>, <<"2", "0", "2", "5", "h", "2">>,
      <<" ", "2", "0", "2", "5", "H", "1", " ">>,
      <<"H", "1", "2", "0", "2", "5">>, <<"h", "2", "2", "0", "2", "5">>,
      <<"H", "1", "0", "0", "2", "5">>,
      <<"2", "0", "2", "5", "H", "3">>, <<"2", "0", "2", "5", "Q", "1">>,
      <<"H", "3", "2", "0", "2", "5">>, <<"2", "0", "2">>, <<"2", "0", "2", "5", "5">>,
      <<"2", "0", "2", "5", "-", "H", "1">>, <<"H", "1">>, <<>>,
      <<"0", "0", "0", "0">>, <<"9", "9", "9", "9">>, <<"9", "9", "9", "9", "H", "2">>,
      <<"9", "9", "9", "9", "H", "1">> }

\* The arguments of MeMatcher.matches: addresses of the two no-reply forms
\* at github.com and at another host, in another spelling, of another user,
\* an ordinary address and none.
CallEmails ==
    { "12+octo@users.noreply.github.com", "octo@users.noreply.github.com",
      "12+Octo@Users.NoReply.GitHub.com", "12+hubot@users.noreply.github.com",
      "12+octo@users.noreply.ghe.example.com", "octo@users.noreply.ghe.example.com",
      "octo@github.com", " Me@X.com", "" }

CallMatchers ==
    [emails : {{}, {"me@x.com"}}, names : {{}, {"bob"}}, email_globs : {{}},
     name_globs : {{}}, github_usernames : {{}, {"octo"}}]

CallInit ==
    /\ call_args \in
          {[fn |-> "parse_numstat_stream", cfg |-> CallCfg, lines |-> l, exit_code |-> 0] :
              l \in CallStreams}
          \cup {[fn |-> "detect_fork", remotes |-> r, fork_remote_names |-> f] :
                  r \in CallRemotes, f \in CallForkNames}
          \cup {[fn |-> "history", cfg |-> CallCfg, shape |-> shape, n |-> 0] :
                  shape \in HistoryShapes}
          \cup {[fn |-> "parse_period", spec |-> spec] : spec \in CallPeriodSpecs}
          \cup {[fn |-> "canonicalize_remote", remote |-> r] : r \in CallUrlTexts}
          \cup {[fn |-> "stray_rows", cfg |-> CallCfg, lines |-> l, exit_code |-> 0] :
                  l \in StrayStreams}
          \cup {[fn |-> "excluded_rows", cfg |-> ExcludedRowCfg, lines |-> l,
                  exit_code |-> 0] : l \in ExcludedRowStreams}
          \cup {[fn |-> "matches", me |-> me, author_name |-> name, author_email |-> email] :
                  me \in CallMatchers, name \in {"", "Bob"}, email \in CallEmails}
    /\ call_out = <<>>
    /\ ParseIdle /\ BootIdle /\ AggIdle /\ SelIdle /\ ProcIdle /\ RunIdle /\ ObjIdle

ParseNumstatStream ==
    /\ call_out = <<>>
    /\ call_args.fn \in {"parse_numstat_stream", "stray_rows", "excluded_rows"}
    /\ call_out' = parse_numstat_stream(call_args.cfg, call_args.lines, call_args.exit_code)
    /\ UNCHANGED call_args
    /\ UNCHANGED notCall

DetectFork ==
    /\ call_out = <<>>
    /\ call_args.fn = "detect_fork"
    /\ call_out' = detect_fork(call_args.remotes, call_args.fork_remote_names)
    /\ UNCHANGED call_args
    /\ UNCHANGED notCall

\* parse_numstat_stream on the history grown by one commit: what it returns
\* after n + 1 applied commits.  The loop is a fold over the lines and the
\* apply_commit that ended the shorter history is the one the next header
\* line makes, so the parse resumes from the state returned for n commits.
ParseLongerHistory ==
    /\ call_args.fn = "history"
    /\ call_args.n < MaxHistory
    /\ call_args' = [call_args EXCEPT !.n = @ + 1]
    /\ call_out' = on_end_of_stream(
                       parse_lines(IF call_out = <<>> THEN InitialState ELSE call_out,
                                   call_args.cfg,
                                   HistoryCommit(call_args.shape, call_args.n + 1)),
                       call_args.cfg, 0)
    /\ UNCHANGED notCall

Matches ==
    /\ call_out = <<>>
    /\ call_args.fn = "matches"
    /\ call_out' = <<MeMatcher_matches(call_args.me, call_args.author_name,
                                       call_args.author_email)>>
    /\ UNCHANGED call_args
    /\ UNCHANGED notCall

ParsePeriod ==
    /\ call_out = <<>>
    /\ call_args.fn = "parse_period"
    /\ call_out' = parse_period(call_args.spec)
    /\ UNCHANGED call_args
    /\ UNCHANGED notCall

CanonicalizeRemote ==
    /\ call_out = <<>>
    /\ call_args.fn = "canonicalize_remote"
    /\ call_out' = <<canonicalize_remote_text(call_args.remote)>>
    /\ UNCHANGED call_args
    /\ UNCHANGED notCall

CallNext ==
    \/ CanonicalizeRemote
    \/ ParsePeriod
    \/ Matches
    \/ ParseNumstatStream
    \/ DetectFork
    \/ ParseLongerHistory

SpecCall == CallInit /\ [][CallNext]_vars

----------------------------------------------------------------------------
(* Claims about single calls, checked under SpecCall *)

\* The author timestamps of the header lines of the history parsed.
CallTimestamps ==
    {Part(call_args.lines[i].parts, 4, EmptyIso) :
        i \in {j \in DOMAIN call_args.lines : call_args.lines[j].kind = "header"}}

\* The date k is a Monday and the instant iso, in UTC, falls in the seven
\* days that start at k 00:00 UTC.
IsUtcWeekOf(k, iso) ==
    LET day == DaysFromCivil(k[1], k[2], k[3])
        utc == DaysFromCivil(iso.y, iso.mo, iso.d) * 1440 + iso.h * 60 + iso.mi
               - (IF iso.tz THEN iso.off ELSE 0)
    IN  /\ (day + 3) % 7 = 0
        /\ day * 1440 <= utc
        /\ utc < (day + 7) * 1440

\* C12: the weekly bucket key of a commit is the Monday 00:00 UTC that
\* starts the week of the author timestamp converted to UTC:
\* 2025-01-05T23:30:00-08:00 goes to 2025-01-06 and
\* 2025-01-06T00:30:00+02:00 to 2024-12-30.
C12_WeeklyKeyIsUtcMonday ==
    (call_out # <<>> /\ call_args.fn = "parse_numstat_stream") =>
        LET keys == DOMAIN call_out.weekly_excl \cup DOMAIN call_out.weekly_boot
        IN  /\ \A iso \in CallTimestamps :
                  IsoParses(iso) => \E k \in keys : IsUtcWeekOf(k, iso)
            /\ \A k \in keys : \E iso \in CallTimestamps : IsoParses(iso) /\ IsUtcWeekOf(k, iso)
            /\ SundayPST \in CallTimestamps => <<2025, 1, 6>> \in keys
            /\ MondayEET \in CallTimestamps => <<2024, 12, 30>> \in keys

\* The commit of Sunday 23:30 -08:00 is counted in the week of 2025-01-06.
C12_Witness ==
    /\ call_out # <<>>
    /\ call_args.fn = "parse_numstat_stream"
    /\ CallTimestamps = {SundayPST}
    /\ DOMAIN call_out.weekly_excl = {<<2025, 1, 6>>}
    /\ call_out.weekly_excl[<<2025, 1, 6>>].commits = 1

\* The commits the call applied, as rows of the top-commits list (the
\* histories of the model have fewer than 50 commits).
AppliedRows == {call_out.top_commits[i] : i \in DOMAIN call_out.top_commits}

\* max(insertions, deletions) / changed >= addition_ratio.
Dominated(row, b) ==
    Max2(row.insertions, row.deletions) * b.ratio_den >= b.ratio_num * row.changed

\* The row is a bootstrap commit of the call: flagged, listed among the
\* bootstrap commits and counted in the bootstraps-only totals alone.
InBootView(row) ==
    /\ row.is_bootstrap
    /\ \E i \in DOMAIN call_out.bootstrap_commits : call_out.bootstrap_commits[i].sha = row.sha
    /\ call_out.stats_boot.commits_total
          = Cardinality({r \in AppliedRows : r.is_bootstrap})
    /\ call_out.stats_excl.commits_total
          = Cardinality({r \in AppliedRows : ~r.is_bootstrap})

\* C13: a commit whose deletions dominate, with changed >= changed_threshold,
\* files_touched >= files_threshold and deletions / changed >=
\* addition_ratio, is a bootstrap: counted in the bootstraps-only totals,
\* listed among the bootstrap commits and absent from the excluding totals
\* (15 deletions in 3 files at 10/3/0.90 is one, 3 insertions in 3 files is
\* not).
C13_DeletionDominantIsBootstrap ==
    (call_out # <<>> /\ call_args.fn = "parse_numstat_stream") =>
        \A row \in AppliedRows :
            LET b == call_args.cfg.bootstrap
            IN  /\ ( /\ row.deletions > row.insertions
                     /\ row.changed >= b.changed_threshold
                     /\ row.files_touched >= b.files_threshold
                     /\ row.deletions * b.ratio_den >= b.ratio_num * row.changed
                     /\ row.sha \notin call_args.cfg.bootstrap_exclude_shas )
                   => InBootView(row)
                /\ (row.changed = 3 /\ row.files_touched = 3) => ~row.is_bootstrap

\* C14: a commit with max(insertions, deletions) / changed >= addition_ratio
\* and changed >= 8 * changed_threshold is a bootstrap even when
\* files_touched is below files_threshold (100 lines added in one file at
\* 10/3/0.90).
C14_ExtremeChurnIsBootstrap ==
    (call_out # <<>> /\ call_args.fn = "parse_numstat_stream") =>
        \A row \in AppliedRows :
            LET b == call_args.cfg.bootstrap
            IN  ( /\ row.changed > 0
                  /\ Dominated(row, b)
                  /\ row.changed >= 8 * b.changed_threshold
                  /\ row.files_touched < b.files_threshold
                  /\ row.sha \notin call_args.cfg.bootstrap_exclude_shas )
                => InBootView(row)

\* C15: a commit with files_touched >= 5 * files_threshold and changed >=
\* 4 * changed_threshold is a bootstrap even when insertions and deletions
\* are balanced (20 files with 20 insertions and 20 deletions at 10/3/0.90).
C15_FileSweepIsBootstrap ==
    (call_out # <<>> /\ call_args.fn = "parse_numstat_stream") =>
        \A row \in AppliedRows :
            LET b == call_args.cfg.bootstrap
            IN  ( /\ row.files_touched >= 5 * b.files_threshold
                  /\ row.changed >= 4 * b.changed_threshold
                  /\ ~Dominated(row, b)
                  /\ row.sha \notin call_args.cfg.bootstrap_exclude_shas )
                => InBootView(row)

\* C16: a commit whose sha is in bootstrap_exclude_shas is never a
\* bootstrap: whatever its size it is counted in the excluding view, the
\* bootstraps-only totals do not change and it is not listed among the
\* bootstrap commits.
C16_ExcludedShaNeverBootstrap ==
    (call_out # <<>> /\ call_args.fn = "parse_numstat_stream") =>
        LET forced == {r \in AppliedRows : r.sha \in call_args.cfg.bootstrap_exclude_shas}
        IN  /\ \A row \in forced :
                  /\ ~row.is_bootstrap
                  /\ \A i \in DOMAIN call_out.bootstrap_commits :
                        call_out.bootstrap_commits[i].sha # row.sha
            /\ call_out.stats_excl.commits_total
                  = Cardinality({r \in AppliedRows : ~r.is_bootstrap})
            /\ call_out.stats_boot.commits_total
                  = Cardinality({r \in AppliedRows : r.is_bootstrap})
            /\ forced = AppliedRows =>
                  /\ call_out.stats_boot = RepoYearStats
                  /\ call_out.stats_excl.insertions_total
                        = SumOver([r \in forced |-> r], forced, "insertions")

\* The commit k adds 15 lines in 3 files, which is_bootstrap accepts, and
\* is in bootstrap_exclude_shas: it is counted in the excluding view.
C16_Witness ==
    /\ call_out # <<>>
    /\ call_args.fn = "parse_numstat_stream"
    /\ \E row \in AppliedRows :
          /\ row.sha = "k"
          /\ "k" \in call_args.cfg.bootstrap_exclude_shas
          /\ is_bootstrap(call_args.cfg.bootstrap, row.insertions, row.deletions,
                          row.files_touched)
    /\ call_out.stats_excl.insertions_total = 15
    /\ call_out.bootstrap_commits = <<>>

\* The parent remote of the call: the first name of fork_remote_names the
\* repository has, "" when it has none.
ParentRemote ==
    LET listed == {i \in DOMAIN call_args.fork_remote_names :
                      call_args.fork_remote_names[i] \in DOMAIN call_args.remotes}
    IN  IF listed = {} THEN ""
        ELSE call_args.fork_remote_names[CHOOSE i \in listed : \A j \in listed : i <= j]

\* C17: detect_fork reports a fork exactly when the repository has a parent
\* remote whose canonical URL differs from that of origin or, only when
\* there is no origin, from that of some remote that is not a parent name.
C17_ForkIffParentDiffers ==
    (call_out # <<>> /\ call_args.fn = "detect_fork") =>
        LET remotes == call_args.remotes
            names   == {call_args.fork_remote_names[i] : i \in DOMAIN call_args.fork_remote_names}
            differs(n) == canonicalize_remote(remotes[n])
                             # canonicalize_remote(remotes[ParentRemote])
        IN  call_out[1] <=>
                /\ ParentRemote # ""
                /\ IF "origin" \in DOMAIN remotes
                   THEN differs("origin")
                   ELSE \E n \in DOMAIN remotes \ names : differs(n)

\* The history parsed has one commit, it was applied and its timestamp
\* does not parse.
OneUnparsedCommit ==
    /\ call_out # <<>>
    /\ call_args.fn = "parse_numstat_stream"
    /\ Cardinality({j \in DOMAIN call_args.lines : call_args.lines[j].kind = "header"}) = 1
    /\ Cardinality(AppliedRows) = 1
    /\ \A iso \in CallTimestamps : ~IsoParses(iso)

\* The rollup of the view the only commit of the call went to.
ViewOf(excl, boot) ==
    IF \A row \in AppliedRows : row.is_bootstrap THEN call_out[boot] ELSE call_out[excl]

NoWeeklyBucket ==
    \A f \in {"weekly_excl", "weekly_boot", "weekly_tech_excl", "weekly_tech_boot",
              "me_weekly_excl", "me_weekly_boot", "me_weekly_tech_excl",
              "me_weekly_tech_boot"} : call_out[f] = EmptyMap

\* The commit is in the period totals and in the author, language and
\* directory maps of its view.
InOtherRollups ==
    \A row \in AppliedRows :
        /\ ViewOf("stats_excl", "stats_boot").commits_total = 1
        /\ ViewOf("stats_excl", "stats_boot").insertions_total = row.insertions
        /\ ViewOf("stats_excl", "stats_boot").deletions_total = row.deletions
        /\ row.author_email # "" =>
              \E k \in DOMAIN ViewOf("authors_excl", "authors_boot") :
                  ViewOf("authors_excl", "authors_boot")[k].commits = 1
        /\ DOMAIN ViewOf("languages_excl", "languages_boot") # {}
        /\ DOMAIN ViewOf("dirs_excl", "dirs_boot") # {}

CommitIsMine == ViewOf("stats_excl", "stats_boot").commits_me = 1

\* C19: a commit whose author timestamp cannot be parsed is counted in the
\* period totals, the author, language and directory maps and, when the
\* author is the operator, in the monthly and monthly-by-language buckets;
\* it is omitted from the weekly buckets only.
C19_UnparsedOmittedFromWeeklyOnly ==
    OneUnparsedCommit =>
        /\ NoWeeklyBucket
        /\ InOtherRollups
        /\ CommitIsMine =>
              /\ \E mk \in DOMAIN ViewOf("me_monthly_excl", "me_monthly_boot") :
                     ViewOf("me_monthly_excl", "me_monthly_boot")[mk].commits = 1
              /\ DOMAIN ViewOf("me_monthly_tech_excl", "me_monthly_tech_boot") # {}

\* C19 as the code has it: the month is read from the text of the
\* timestamp, so the commit is in the monthly buckets of the operator when
\* the text starts with a year and a month (2025-02-30T12:00:00+00:00 is
\* counted in 2025-02) and in no monthly bucket when it does not (the
\* empty timestamp); in both cases it is in no weekly bucket and in the
\* other rollups.
C19_UnparsedMonthFromText ==
    OneUnparsedCommit =>
        /\ NoWeeklyBucket
        /\ InOtherRollups
        /\ CommitIsMine =>
              \A iso \in CallTimestamps : \A row \in AppliedRows :
                  LET monthly == ViewOf("me_monthly_excl", "me_monthly_boot")
                      tech    == ViewOf("me_monthly_tech_excl", "me_monthly_tech_boot")
                  IN  IF iso.empty
                      THEN monthly = EmptyMap /\ tech = EmptyMap
                      ELSE /\ DOMAIN monthly = {<<iso.y, iso.mo>>}
                           /\ monthly[<<iso.y, iso.mo>>]
                                 = [commits |-> 1, insertions |-> row.insertions,
                                    deletions |-> row.deletions]
                           /\ DOMAIN tech = {<<iso.y, iso.mo>>}

\* The operator's commit dated 2025-02-30 is counted in the month 2025-02
\* and in no week.
C19_Witness ==
    /\ OneUnparsedCommit
    /\ CommitIsMine
    /\ NoWeeklyBucket
    /\ CallTimestamps = {Iso(2025, 2, 30, 12, 0, 0)}
    /\ DOMAIN call_out.me_monthly_excl = {<<2025, 2>>}
    /\ call_out.me_monthly_excl[<<2025, 2>>].commits = 1

\* The header lines of the history parsed, in order, that carry the
\* normalized email key and whose commit went to the bootstrap view or not.
SightingsOf(key, boot) ==
    LET lines == call_args.lines
        RowOf(sha) == CHOOSE row \in AppliedRows : row.sha = sha
    IN  SelectSeq([i \in DOMAIN lines |-> lines[i]],
                  LAMBDA line :
                      /\ line.kind = "header"
                      /\ normalize_email(Part(line.parts, 3, "")) = key
                      /\ \E row \in AppliedRows : row.sha = Part(line.parts, 1, "")
                      /\ RowOf(Part(line.parts, 1, "")).is_bootstrap = boot)

\* The first non-blank value of column i in the sightings, "" if none.
FirstNonBlank(sightings, i) ==
    LET filled == SelectSeq(sightings, LAMBDA line : Part(line.parts, i, "") # "")
    IN  IF filled = <<>> THEN "" ELSE Part(filled[1].parts, i, "")

\* C20: author totals are keyed by the normalized email: the first applied
\* commit of an email creates the entry, a later commit of the same
\* normalized email fills in the name or the email when the stored one is
\* blank, and every commit adds one to the commits of the entry.
C20_AuthorEntryFilledOnLaterSight ==
    (call_out # <<>> /\ call_args.fn = "parse_numstat_stream") =>
        \A boot \in BOOLEAN :
            LET authors == IF boot THEN call_out.authors_boot ELSE call_out.authors_excl
                keys    == {normalize_email(row.author_email) :
                               row \in {r \in AppliedRows : r.is_bootstrap = boot}} \ {""}
            IN  /\ DOMAIN authors = keys
                /\ \A key \in keys :
                      /\ authors[key].commits = Len(SightingsOf(key, boot))
                      /\ authors[key].name = FirstNonBlank(SightingsOf(key, boot), 2)
                      /\ authors[key].email = FirstNonBlank(SightingsOf(key, boot), 3)

\* The commits of the history parsed so far, by position, as (changed, sha).
HistoryCommits ==
    [i \in 1..call_args.n |->
        [changed |-> HistoryChurn(call_args.shape, i), sha |-> HistorySha(i)]]

\* Commit a is above commit b in the order (changed, sha).
Above(a, b) ==
    \/ a.changed > b.changed
    \/ a.changed = b.changed /\ ShaRank(a.sha) > ShaRank(b.sha)

\* C21: after n applied commits the top-commits selection holds min(50, n)
\* commits, never more than 50, and they are the largest of the applied
\* commits under the order (changed, sha); the list returned is sorted by
\* changed descending, then sha ascending.
C21_TopCommitsAreTheLargest ==
    (call_out # <<>> /\ call_args.fn = "history") =>
        LET n     == call_args.n
            top   == call_out.top_commits
            kept  == {[changed |-> top[i].changed, sha |-> top[i].sha] : i \in DOMAIN top}
            all   == {HistoryCommits[i] : i \in 1..n}
        IN  /\ Len(top) <= TopCommitsCap
            /\ Len(top) = (IF n < TopCommitsCap THEN n ELSE TopCommitsCap)
            /\ Len(call_out.top_commits_heap) = Len(top)
            /\ Cardinality(kept) = Len(top)
            /\ kept = {c \in all :
                          Cardinality({d \in all : Above(d, c)}) < TopCommitsCap}
            /\ \A i \in 1..(Len(top) - 1) :
                  \/ top[i].changed > top[i + 1].changed
                  \/ /\ top[i].changed = top[i + 1].changed
                     /\ ShaRank(top[i].sha) < ShaRank(top[i + 1].sha)

\* 53 commits of growing churn were applied: the 50 kept are those of churn
\* 4 to 53, the largest first.
C21_Witness ==
    /\ call_out # <<>>
    /\ call_args.fn = "history"
    /\ call_args.shape = "growing"
    /\ call_args.n = 53
    /\ Len(call_out.top_commits) = 50
    /\ call_out.top_commits[1].changed = 53
    /\ call_out.top_commits[50].changed = 4

\* The username of an address of the form <id>+<username>@users.noreply.<host>
\* or <username>@users.noreply.<host>, "" for any other address of the model.
NoReplyUsername(email) ==
    CASE email \in {"12+octo@users.noreply.github.com", "octo@users.noreply.github.com",
                    "12+Octo@Users.NoReply.GitHub.com",
                    "12+octo@users.noreply.ghe.example.com",
                    "octo@users.noreply.ghe.example.com"} -> "octo"
      [] email = "12+hubot@users.noreply.github.com" -> "hubot"
      [] OTHER -> ""

NoReplyHost(email) ==
    IF email \in {"12+octo@users.noreply.ghe.example.com",
                  "octo@users.noreply.ghe.example.com"} THEN "ghe.example.com"
    ELSE IF NoReplyUsername(email) # "" THEN "github.com" ELSE ""

\* C22: MeMatcher.matches is true for an author address of the form
\* <id>+<username>@users.noreply.<host> or <username>@users.noreply.<host>,
\* for any host, when the username is in the set of GitHub usernames.
C22_NoReplyAnyHostMatches ==
    ( /\ call_out # <<>>
      /\ call_args.fn = "matches"
      /\ NoReplyUsername(call_args.author_email) # ""
      /\ NoReplyUsername(call_args.author_email) \in call_args.me.github_usernames )
    => call_out[1]

\* C22 as the code has it: the username is taken from addresses at
\* users.noreply.github.com only, so such an address matches when its
\* username is in the set, and an address at users.noreply.<other host>
\* matches only by its address or by the author name.
C22_NoReplyGithubComMatches ==
    (call_out # <<>> /\ call_args.fn = "matches") =>
        LET me    == call_args.me
            email == call_args.author_email
            user  == NoReplyUsername(email)
            other == \/ normalize_email(email) \in me.emails
                     \/ normalize_name(call_args.author_name) \in me.names \cup me.github_usernames
        IN  /\ (user # "" /\ user \in me.github_usernames /\ NoReplyHost(email) = "github.com")
                  => call_out[1]
            /\ (user # "" /\ NoReplyHost(email) # "github.com") => (call_out[1] <=> other)
            /\ (user # "" /\ user \notin me.github_usernames) => (call_out[1] <=> other)

\* 12+octo@users.noreply.github.com matches by the username octo alone.
C22_Witness ==
    /\ call_args.fn = "matches"
    /\ call_out = <<TRUE>>
    /\ call_args.author_email = "12+octo@users.noreply.github.com"
    /\ call_args.author_name = ""
    /\ call_args.me.emails = {}
    /\ call_args.me.github_usernames = {"octo"}

\* The spec, stripped, is four digits, or four digits and then H1 or H2.
YearOrYearHalf(spec) ==
    LET s == Strip(spec)
    IN  \/ Len(s) = 4 /\ AllDigits(s)
        \/ Len(s) = 6 /\ AllDigits(SubSeq(s, 1, 4)) /\ IsHalf(SubSeq(s, 5, 6))

\* C23: parse_period accepts only the forms YYYY, YYYYH1 and YYYYH2 and
\* raises ValueError for every other string, in particular for the
\* half-first form H12025.
C23_OnlyYearAndYearHalf ==
    (call_out # <<>> /\ call_args.fn = "parse_period") =>
        /\ ~YearOrYearHalf(call_args.spec) => call_out = ValueError
        /\ call_args.spec = <<"H", "1", "2", "0", "2", "5">> => call_out = ValueError

\* The rows of the commit whose header is line h of the history: the
\* numstat lines after h and before the next header line.
RowsOf(h) ==
    LET lines == call_args.lines
    IN  {j \in DOMAIN lines :
            /\ j > h
            /\ lines[j].kind = "numstat"
            /\ \A m \in (h + 1)..j : lines[m].kind # "header"}

\* The sum of column col of the numstat lines js.
RECURSIVE SumRows(_, _)
SumRows(js, col) ==
    IF js = {} THEN 0
    ELSE LET j == CHOOSE x \in js : TRUE
         IN  call_args.lines[j].parts[col] + SumRows(js \ {j}, col)

\* C24: the per-commit accumulator carries nothing from one commit to
\* another: every numstat row is counted in the commit of the nearest
\* header line before it, and the rows before the first header line or
\* after a header line with an empty sha are counted in no commit.
C24_RowsCountedInOwnCommitOnly ==
    (call_out # <<>> /\ call_args.fn = "stray_rows") =>
        LET lines   == call_args.lines
            commits == {h \in DOMAIN lines :
                           lines[h].kind = "header" /\ lines[h].parts[1] # ""}
        IN  /\ Cardinality(AppliedRows) = Cardinality(commits)
            /\ \A h \in commits :
                  \E row \in AppliedRows :
                      /\ row.sha = lines[h].parts[1]
                      /\ row.insertions = SumRows(RowsOf(h), 1)
                      /\ row.deletions = SumRows(RowsOf(h), 2)
                      /\ row.files_touched = Cardinality(RowsOf(h))
            /\ call_out.stats_excl.insertions_total + call_out.stats_boot.insertions_total
                  = SumRows(UNION {RowsOf(h) : h \in commits}, 1)
            /\ SumField(call_out.languages_excl, "insertions")
                  + SumField(call_out.languages_boot, "insertions")
                  = SumRows(UNION {RowsOf(h) : h \in commits}, 1)
            /\ SumField(call_out.dirs_excl, "insertions")
                  + SumField(call_out.dirs_boot, "insertions")
                  = SumRows(UNION {RowsOf(h) : h \in commits}, 1)

\* The numstat line j of the history has a path under vendor/ or named
\* logo.bin.
IsExcludedRow(j) ==
    LET path == call_args.lines[j].parts[3].left
    IN  path[1] = "vendor" \/ path[Len(path)] = "logo.bin"

\* C25: a numstat row whose path matches an exclusion prefix or glob adds
\* only to the excluded-file and excluded-line counters: nothing to the
\* insertions, deletions, files_touched, language or directory totals of
\* its commit, whose bootstrap classification is that of its other rows.
C25_ExcludedRowOnlyInExcludedCounters ==
    (call_out # <<>> /\ call_args.fn = "excluded_rows") =>
        LET lines   == call_args.lines
            commits == {h \in DOMAIN lines : lines[h].kind = "header"}
            Own(h)  == {j \in RowsOf(h) : ~IsExcludedRow(j)}
            out     == UNION {{j \in RowsOf(h) : IsExcludedRow(j)} : h \in commits}
            kept    == UNION {Own(h) : h \in commits}
        IN  /\ \A h \in commits :
                  \E row \in AppliedRows :
                      /\ row.sha = lines[h].parts[1]
                      /\ row.insertions = SumRows(Own(h), 1)
                      /\ row.deletions = SumRows(Own(h), 2)
                      /\ row.files_touched = Cardinality(Own(h))
                      /\ row.is_bootstrap
                            = is_bootstrap(call_args.cfg.bootstrap, SumRows(Own(h), 1),
                                           SumRows(Own(h), 2), Cardinality(Own(h)))
            /\ call_out.excluded
                  = [excluded_files |-> Cardinality(out),
                     excluded_insertions |-> SumRows(out, 1),
                     excluded_deletions |-> SumRows(out, 2),
                     excluded_changed |-> SumRows(out, 1) + SumRows(out, 2)]
            /\ \A col \in 1..2 :
                  LET field == IF col = 1 THEN "insertions" ELSE "deletions"
                  IN  /\ SumField(call_out.languages_excl, field)
                            + SumField(call_out.languages_boot, field) = SumRows(kept, col)
                      /\ SumField(call_out.dirs_excl, field)
                            + SumField(call_out.dirs_boot, field) = SumRows(kept, col)

\* A commit of 15 insertions in 3 files and a row of 9 deletions under
\* vendor/: the commit stays a bootstrap of 15 lines and the row is among
\* the excluded ones.
C25_Witness ==
    /\ call_out # <<>>
    /\ call_args.fn = "excluded_rows"
    /\ call_out.excluded.excluded_files = 1
    /\ call_out.excluded.excluded_deletions = 9
    /\ call_out.stats_boot.commits_total = 1
    /\ call_out.stats_boot.insertions_total = 15
    /\ call_out.stats_boot.deletions_total = 0

\* C30: for every non-empty remote URL, canonicalize_remote returns a
\* lower-case host/path text without scheme or user part that does not end
\* with "/" or with ".git", so that canonicalizing its result again returns
\* the same text.
C30_CanonicalRemoteIsAFixedPoint ==
    (call_args.fn = "canonicalize_remote" /\ call_out # <<>>) =>
        LET canon == call_out[1]
        IN  /\ canon # <<>>
            /\ \A i \in DOMAIN canon :
                  canon[i] = Lower(canon[i]) /\ canon[i] \notin {"://", "@"}
            /\ canon[Len(canon)] \notin {"/", ".git"}
            /\ canonicalize_remote_text(canon) = canon

----------------------------------------------------------------------------
(* Claims about the parser and the aggregates of its results, checked      *)
(* under Spec                                                              *)

\* The operator's share of a period total or of a language or directory
\* entry is within the total.
ShareWithinTotal(stats) ==
    /\ stats.commits_me <= stats.commits_total
    /\ stats.insertions_me <= stats.insertions_total
    /\ stats.deletions_me <= stats.deletions_total

ShareWithinEntries(m) ==
    \A k \in DOMAIN m :
        /\ m[k].insertions_me <= m[k].insertions
        /\ m[k].deletions_me <= m[k].deletions

\* The RepoResult analyze_repo builds from the parser's state for 2025.
RepoOfState ==
    RepoResult(<<"", "w", "r">>, <<>>, SundayPST, "Me", " Me@X.com", <<"2025">>,
               [l \in {"2025"} |-> st])

\* C27: in every state of the parser and in every aggregate the operator's
\* share never exceeds the total: commits_me <= commits_total,
\* insertions_me <= insertions_total and deletions_me <= deletions_total in
\* both views, insertions_me <= insertions and deletions_me <= deletions
\* for every language and directory, and every derived 'others' value of
\* the aggregates over repositories in that state is >= 0.
C27_ShareNeverExceedsTotal ==
    /\ ShareWithinTotal(st.stats_excl)
    /\ ShareWithinTotal(st.stats_boot)
    /\ \A f \in {"languages_excl", "languages_boot", "dirs_excl", "dirs_boot"} :
          ShareWithinEntries(st[f])
    /\ LET repos == <<RepoOfState, RepoOfState>>
           TotalsOk(inc, only) ==
               LET out == aggregate_period(repos, Period("2025"), cfg.me, inc, only)
               IN  /\ ShareWithinTotal(out)
                   /\ out.commits_others >= 0
                   /\ out.insertions_others >= 0
                   /\ out.deletions_others >= 0
                   /\ out.changed_others >= 0
                   /\ out.commits_total
                         = 2 * ((IF only THEN 0 ELSE st.stats_excl.commits_total)
                                + (IF inc \/ only THEN st.stats_boot.commits_total ELSE 0))
           EntriesOk(m) ==
               /\ ShareWithinEntries(m)
               /\ \A k \in DOMAIN m :
                     /\ m[k].insertions_others >= 0
                     /\ m[k].deletions_others >= 0
                     /\ m[k].changed_others >= 0
       IN  \A mode \in {<<FALSE, FALSE>>, <<TRUE, FALSE>>, <<FALSE, TRUE>>} :
               /\ TotalsOk(mode[1], mode[2])
               /\ EntriesOk(aggregate_languages(repos, "2025", mode[1], mode[2]))
               /\ EntriesOk(aggregate_dirs(repos, "2025", mode[1], mode[2]))

\* The parser has returned a commit of the operator and one of somebody
\* else, with lines counted for both.
C27_Witness ==
    /\ phase = "done"
    /\ st.stats_excl.commits_me = 1
    /\ st.stats_excl.commits_total = 2
    /\ st.stats_excl.insertions_me > 0
    /\ st.stats_excl.insertions_me < st.stats_excl.insertions_total
    /\ \E k \in DOMAIN st.languages_excl :
          /\ st.languages_excl[k].insertions_me > 0
          /\ st.languages_excl[k].insertions_me < st.languages_excl[k].insertions

\* The commits applied to a view so far, as the entries of the heap (the
\* histories of the parser have fewer than 50 commits).
AppliedTo(boot) ==
    {st.top_commits_heap[i] : i \in
        {j \in DOMAIN st.top_commits_heap : st.top_commits_heap[j].is_bootstrap = boot}}

\* C28: in each view the sums over the weekly buckets of commits,
\* insertions and deletions never exceed the view's totals, and equal them
\* when every commit applied to the view has a parseable author timestamp.
C28_WeeklySumsWithinTotals ==
    \A boot \in BOOLEAN :
        LET weekly == IF boot THEN st.weekly_boot ELSE st.weekly_excl
            stats  == IF boot THEN st.stats_boot ELSE st.stats_excl
            parsed == \A row \in AppliedTo(boot) : IsoParses(row.commit_iso)
        IN  /\ Cardinality(AppliedTo(boot)) = stats.commits_total
            /\ SumField(weekly, "commits") <= stats.commits_total
            /\ SumField(weekly, "insertions") <= stats.insertions_total
            /\ SumField(weekly, "deletions") <= stats.deletions_total
            /\ parsed =>
                  /\ SumField(weekly, "commits") = stats.commits_total
                  /\ SumField(weekly, "insertions") = stats.insertions_total
                  /\ SumField(weekly, "deletions") = stats.deletions_total
            /\ SumField(weekly, "commits")
                  = Cardinality({row \in AppliedTo(boot) : IsoParses(row.commit_iso)})

\* Two commits were applied to the excluding view, one of them without a
\* timestamp: the weekly buckets hold one commit and the total is two.
C28_Witness ==
    /\ phase = "done"
    /\ st.stats_excl.commits_total = 2
    /\ st.stats_excl.insertions_total > SumField(st.weekly_excl, "insertions")
    /\ SumField(st.weekly_excl, "commits") = 1
    /\ SumField(st.weekly_excl, "insertions") > 0

====
